---- MODULE Spec2Model ----
(***************************************************************************)
(* hunittest: the concurrent scheduler (runner.run_concurrent_tests), the  *)
(* worker loop (runner._worker_run), the single-process runner            *)
(* (runner.run_monoproc_tests) and the result mixin stack of              *)
(* unittestresultlib (HTestResult, HTestResultClient, HTestResultServer). *)
(***************************************************************************)
EXTENDS Integers, Sequences, FiniteSets, TLC

(* ---------------------------- bounds ---------------------------------- *)
\* largest number of collected test identifiers
MaxTests == 3
\* largest value of the --jobs option in a concurrent run
MaxJobs == 2
MaxClock == 3
MaxSplits == 3
\* the lines of one entry of a formatted traceback, and the entries printed
MaxLines == 3
MaxEntries == 2

(* ------------------------- Status taxonomy ---------------------------- *)
PASS == "pass"
FAIL == "fail"
ERROR == "error"
SKIP == "skip"
XFAIL == "xfail"
XPASS == "xpass"

\* Status.stopped(): every status but RUNNING and STOP
Stopped == {PASS, FAIL, ERROR, SKIP, XFAIL, XPASS}

is_erroneous(status) == status = FAIL \/ status = ERROR \/ status = XPASS

\* StatusCounters.__init__ : every stopped status set to 0
StatusCounters == [s \in Stopped |-> 0]

\* faulty variant: incrementing a counter resets the other ones
inc_resets_others(counters, status) ==
    [s \in DOMAIN counters |-> IF s = status THEN counters[s] + 1 ELSE 0]

\* StatusCounters.inc
inc(counters, status) == [counters EXCEPT ![status] = @ + 1]

\* faulty variant: unexpected successes are not looked at
is_successful_ignoring_xpass(counters) ==
    counters[FAIL] = counters[ERROR] /\ counters[ERROR] = 0

\* StatusCounters.is_successful: the chained comparison
\* fail_count == error_count == xpass_count == 0
is_successful(counters) ==
    /\ counters[FAIL] = counters[ERROR]
    /\ counters[ERROR] = counters[XPASS]
    /\ counters[XPASS] = 0

(* ------------------------- test identifiers --------------------------- *)
\* A dotted test spec "pkg.mod.Class.method" is the sequence of its
\* components <<module, class, method>>; the i-th collected identifier is
\* method number i of one test class.
TestSpec(i) == <<"pkg.mod", "Case", i>>

\* The test case object built from a spec by load_single_test_case.
load_single_test_case(test_name) ==
    [module |-> test_name[1], cls |-> test_name[2], method |-> test_name[3]]

\* get_test_name applied to a test case object / to a string
get_test_name(test) == <<test.module, test.cls, test.method>>
get_test_name_str(test_name) == test_name

\* The function object get_test_name itself, which ErrSuccTracker.addOutcome
\* adds to the success set in place of the test name.
GetTestNameFunction == <<"function get_test_name">>

\* index of an identifier in the collected sequence
IndexOf(test_name) == test_name[3]

(* --------------------- behaviour of a test body ----------------------- *)
\* What running one test does: whether load_single_test_case finds it, the
\* statuses of the outcome callbacks test_case.run makes, in order, and
\* whether the test body changes the working directory.
OneOutcome == {[load |-> TRUE, results |-> <<s>>, chdir |-> FALSE] : s \in Stopped}
SubTests == {[load |-> TRUE, results |-> <<PASS, FAIL>>, chdir |-> FALSE],
             [load |-> TRUE, results |-> <<PASS, PASS>>, chdir |-> FALSE]}
Faulty == {[load |-> FALSE, results |-> <<>>, chdir |-> FALSE],
           [load |-> TRUE, results |-> <<PASS>>, chdir |-> TRUE],
           [load |-> TRUE, results |-> <<FAIL>>, chdir |-> TRUE]}

\* behaviours drawn for a single-process run
MonoBehaviours == OneOutcome \cup SubTests \cup Faulty
\* behaviours drawn for a concurrent run with several jobs: a passing test, a
\* test with a passing and a failing sub-test, a test that cannot be loaded
ConcBehaviours == {b \in OneOutcome : b.results[1] = PASS}
                  \cup {b \in SubTests : b.results[2] = FAIL}
                  \cup {b \in Faulty : ~b.load}

\* multiprocessing start methods: the default is fork on Linux, spawn on
\* macOS and Windows (forkserver closes inherited handles as spawn does)
StartMethods == {"fork", "spawn"}

SuitesOver(B) == UNION {[1..n -> B] : n \in 0..MaxTests}

VARIABLES
    test_names,   \* the ordered identifiers handed to the runner
    suite,        \* suite[i]: behaviour of test_names[i]
    njobs,        \* --jobs
    failfast,     \* --failfast
    start_method, \* how multiprocessing starts a worker: "fork" or "spawn"
    pc,           \* position of run_concurrent_tests
    t,            \* index of the next not-yet-dispatched identifier (0-based)
    conns,        \* live set: worker ids whose parent end is in conns
    workers,      \* worker processes started
    k,            \* position of the finally loop over conns
    j,            \* position of the join loop over workers
    exc,          \* an exception is propagating out of the try block
    result,       \* the HTestResultServer
    down,         \* down[w]: messages sent to worker w, not yet received
    up,           \* up[w]: messages sent by worker w, not yet received
    closed_w,     \* closed_w[w]: worker w closed its end of the pipe
    closed_m,     \* closed_m[w]: the scheduler closed its end of pipe w
    wpc,          \* position of _worker_run in worker w
    wmsg,         \* the identifier worker w is running
    client,       \* client[w]: the HTestResultClient of worker w
    wcwd,         \* working directory of worker w
    wexc,         \* message of the RuntimeError raised out of _worker_run in
                  \* worker w, "" when there is none
    started,      \* started[i]: calls of start_test for identifier i
    sent,         \* sent[i]: TestResultMsg sent for identifier i
    processed,    \* processed[i]: calls of process_result for identifier i
    errmsgs,      \* errmsgs[i]: _ErrMsg sent while running identifier i
    mpc,          \* position of run_monoproc_tests
    mi,           \* index of the next identifier of the single-process loop
    mresult,      \* the HTestResult
    mcwd,         \* working directory of the single process
    top_level_only,  \* reported_collect: collecting top-level specs only
    error_file,   \* the lines of the failure-list file
    previous_errors, \* reported_collect: the failure list as loaded
    collection,   \* what filter_rules(collection) yields, in order
    collected,    \* reported_collect: the list test_names under construction
    status_db,    \* the StatusDB file: <<>> when absent, else <<scores>>
    prev_counters, \* what print_summary got from load_status: <<>> for None
    cpc,          \* position of the command-line driver
    rc,           \* what _do_main returned: <<>> while it has not, else <<n>>
    no_returncode, \* --no-returncode
    quiet,        \* --quiet
    pager,        \* --pager: "auto" or "never"
    isatty,       \* the isatty argument of maybe_spawn_pager
    sw,           \* a StopWatch object
    utcnow,       \* what datetime.utcnow() returns
    sw_raised,    \* message of the RuntimeError the last StopWatch call
                  \* raised, "" when it returned
    elapsed,      \* elapsed[i]: the total_time of the TestResultMsg of test
                  \* i, <<>> while there is none
    server_total_split_time, \* HTestResultServer._total_split_time
    printer,      \* the ResultPrinter
    stdio,        \* stdio[i]: what test i writes to stdout and to stderr
    cap,          \* the CaptureStdio part of the result object that runs
                  \* the tests, and the process's sys.stdout / sys.stderr
    pdb,          \* --pdb
    buffer_kwd,   \* the buffer keyword given to the result class: <<>>
                  \* when it is not given
    strip_unittest_traceback, \* ResultPrinter._strip_unittest_traceback
    lines,        \* _print_error: the entry of all_lines being printed
    entries_done, \* _print_error: the entries of all_lines printed so far
    written       \* _print_error: what log_write_nl was given for lines

inputs == <<test_names, suite, njobs, failfast, start_method>>
sched == <<pc, t, conns, workers, k, j, exc, result>>
pipes == <<down, up, closed_w, closed_m>>
procs == <<wpc, wmsg, client, wcwd, wexc>>
history == <<started, sent, processed, errmsgs>>
concv == <<sched, pipes, procs, history>>
monov == <<mpc, mi, mresult, mcwd>>
tbv == <<strip_unittest_traceback, lines, entries_done, written>>
mainv == <<rc, no_returncode, quiet, pager, isatty, tbv>>
cliv == <<top_level_only, error_file, previous_errors, collection,
          collected, status_db, prev_counters, cpc, mainv>>
timev == <<elapsed, server_total_split_time>>
swv == <<sw, utcnow, sw_raised, timev>>
iov == <<printer, stdio, cap, pdb, buffer_kwd>>
vars == <<inputs, concv, monov, cliv, swv, iov>>


(* ------------------------ the result objects -------------------------- *)
\* A test handed to a result callback is a test case object (single-process
\* runner, worker) or the identifier string (HTestResultServer).
TestCaseObj(test_name) ==
    [kind |-> "TestCase", value |-> <<>>] @@ load_single_test_case(test_name)
StrObj(test_name) ==
    [kind |-> "str", value |-> test_name, module |-> "", cls |-> "", method |-> 0]

\* get_test_name: a string is returned as is, a test case object is named
\* module.Class.method
test_name_of(test) ==
    IF test.kind = "str" THEN get_test_name_str(test.value)
    ELSE get_test_name(test)

NoAttrs == [test_name |-> <<>>]

\* The fields set by the __init__ of the mixins (BaseResult, Failfast,
\* RunProgress, StatusTracker, ErrSuccTracker, CheckCWDDidNotChanged,
\* HTestResultClient).
NewResult(ff, total) ==
    [should_stop |-> FALSE,
     failfast |-> ff,
     tests_run |-> 0,
     total_tests |-> total,
     status_counters |-> StatusCounters,
     error_test_specs |-> {},
     succeed_test_specs |-> {},
     old_cwd |-> "",
     result_attrs |-> NoAttrs,
     sub_results |-> <<>>]

\* BaseResult.stop
stop(self) == [self EXCEPT !.should_stop = TRUE]

\* BaseResult.addOutcome: the end of the delegation chain
BaseResult_addOutcome(self, test, status) == self

\* faulty variant: an erroneous test is not added to the error set
ErrSuccTracker_addOutcome_forgets_errors(self, test, status) ==
    LET s == BaseResult_addOutcome(self, test, status)
    IN IF is_erroneous(status)
       THEN s
       ELSE [s EXCEPT !.succeed_test_specs = @ \cup {GetTestNameFunction}]

\* ErrSuccTracker.addOutcome
ErrSuccTracker_addOutcome(self, test, status) ==
    LET s == BaseResult_addOutcome(self, test, status)
        test_name == test_name_of(test)
    IN IF is_erroneous(status)
       THEN [s EXCEPT !.error_test_specs = @ \cup {test_name}]
       ELSE [s EXCEPT !.succeed_test_specs = @ \cup {GetTestNameFunction}]

\* faulty variant: a skipped test is not counted
StatusTracker_addOutcome_skip_uncounted(self, test, status) ==
    LET s == ErrSuccTracker_addOutcome(self, test, status)
    IN IF status = SKIP THEN s ELSE [s EXCEPT !.status_counters = inc(@, status)]

\* StatusTracker.addOutcome: ErrSuccTracker follows it in both class orders
StatusTracker_addOutcome(self, test, status) ==
    LET s == ErrSuccTracker_addOutcome(self, test, status)
    IN [s EXCEPT !.status_counters = inc(@, status)]

\* faulty variant: an unexpected success does not stop the run
Failfast_addOutcome_not_xpass(after_super, test, status) ==
    IF after_super.failfast /\ (status = FAIL \/ status = ERROR)
    THEN stop(after_super) ELSE after_super

\* Failfast.addOutcome; after_super is the object once super().addOutcome,
\* the next addOutcome of the class order, has returned
Failfast_addOutcome(after_super, test, status) ==
    IF after_super.failfast /\ is_erroneous(status)
    THEN stop(after_super) ELSE after_super

\* RunProgress.startTest
RunProgress_startTest(self, test) == [self EXCEPT !.tests_run = @ + 1]

\* CheckCWDDidNotChanged.startTest
CheckCWD_startTest(self, test, cwd) == [self EXCEPT !.old_cwd = cwd]

\* faulty variant: the directory at stopTest is not looked at
CheckCWD_stopTest_blind(self, test, cwd) == self.old_cwd # self.old_cwd

\* CheckCWDDidNotChanged.stopTest: TRUE when it raises
CheckCWD_stopTest_raises(self, test, cwd) == self.old_cwd # cwd

\* StatusTracker.wasSuccessful
wasSuccessful(self) == is_successful(self.status_counters)

(* HTestResult (single process) *)
HTestResult_startTest(self, test, cwd) ==
    RunProgress_startTest(CheckCWD_startTest(self, test, cwd), test)

\* faulty variant: an erroneous outcome stops the run whatever the option
HTestResult_addOutcome_always_stops(self, test, status) ==
    LET s == StatusTracker_addOutcome(self, test, status)
    IN IF is_erroneous(status) THEN stop(s) ELSE s

HTestResult_addOutcome(self, test, status) ==
    Failfast_addOutcome(StatusTracker_addOutcome(self, test, status),
                        test, status)

(* HTestResultServer (scheduler side) *)
HTestResultServer_startTest(self, test) == RunProgress_startTest(self, test)

HTestResultServer_addOutcome(self, test, status) ==
    Failfast_addOutcome(StatusTracker_addOutcome(self, test, status),
                        test, status)

RECURSIVE ServerOutcomes(_, _, _)
ServerOutcomes(self, test_name, results) ==
    IF results = <<>> THEN self
    ELSE ServerOutcomes(
             HTestResultServer_addOutcome(self, StrObj(test_name),
                                          Head(results).status),
             test_name, Tail(results))

\* faulty variant: only the first sub-result of a message is aggregated
process_result_first_only(self, result_msg) ==
    ServerOutcomes(self, result_msg.test_name, <<Head(result_msg.results)>>)

\* HTestResultServer.process_result
process_result(self, result_msg) ==
    ServerOutcomes(self, result_msg.test_name, result_msg.results)

(* HTestResultClient (worker side) *)
HTestResultClient_startTest(self, test, cwd) == CheckCWD_startTest(self, test, cwd)

\* HTestResultClient._save_result
save_result(self, test, status) ==
    [self EXCEPT !.result_attrs = [test_name |-> test_name_of(test)],
                 !.sub_results = Append(@, [status |-> status])]

HTestResultClient_addOutcome(self, test, status) ==
    save_result(Failfast_addOutcome(BaseResult_addOutcome(self, test, status),
                                    test, status),
                test, status)

\* the TestResultMsg built by HTestResultClient._send_outcome
TestResultMsg(self, worker_id) ==
    [kind |-> "TestResultMsg", worker_id |-> worker_id,
     test_name |-> self.result_attrs.test_name,
     results |-> self.sub_results]

\* faulty variant: the list of sub-results is not reset after the send
send_outcome_keeps_results(self) == [self EXCEPT !.result_attrs = NoAttrs]

\* the state HTestResultClient._send_outcome leaves after the send
send_outcome(self) ==
    [self EXCEPT !.result_attrs = NoAttrs, !.sub_results = <<>>]

\* the _ErrMsg a worker sends when an exception escapes _worker_run_aux
ErrMsg(worker_id) ==
    [kind |-> "ErrMsg", worker_id |-> worker_id, test_name |-> <<>>,
     results |-> <<>>]

(* test_case.run(result): startTest, the outcome callbacks, stopTest *)
RECURSIVE ClientOutcomes(_, _, _)
ClientOutcomes(self, test, statuses) ==
    IF statuses = <<>> THEN self
    ELSE ClientOutcomes(HTestResultClient_addOutcome(self, test, Head(statuses)),
                        test, Tail(statuses))

RECURSIVE MonoOutcomes(_, _, _)
MonoOutcomes(self, test, statuses) ==
    IF statuses = <<>> THEN self
    ELSE MonoOutcomes(HTestResult_addOutcome(self, test, Head(statuses)),
                      test, Tail(statuses))

\* working directory after the body of a test
Elsewhere == "/elsewhere"
TopDir == "/top"
cwd_after(b, cwd) == IF b.chdir THEN Elsewhere ELSE cwd

(* ------------------------------ pipes --------------------------------- *)
\* what the scheduler sends: an identifier (str) or the stop sentinel None
StrMsg(test_name) == [kind |-> "str", name |-> test_name]
None == [kind |-> "None", name |-> <<>>]

Range(seq) == {seq[x] : x \in 1..Len(seq)}
\* faulty variant: the first connection of the list is removed
Remove_first(seq, e) == Tail(seq)

\* conns.remove(conn)
Remove(seq, e) == SelectSeq(seq, LAMBDA x : x # e)
Min(a, b) == IF a < b THEN a ELSE b

ntest == Len(test_names)
\* faulty variant: one worker per job, however few tests there are
nproc_njobs == njobs

\* line 84
nproc == Min(ntest, njobs)

(* ------------------------- run_concurrent_tests ----------------------- *)
NoCounts == [i \in 1..Len(suite) |-> 0]

InitInputs(B, J, M) ==
    /\ suite \in SuitesOver(B)
    /\ test_names = [i \in 1..Len(suite) |-> TestSpec(i)]
    /\ njobs \in J
    /\ failfast \in BOOLEAN
    /\ start_method \in M

InitSched(at) ==
    /\ pc = at
    /\ t = 0
    /\ conns = <<>>
    /\ workers = <<>>
    /\ k = 1
    /\ j = 1
    /\ exc = FALSE
    /\ result = NewResult(failfast, Len(suite))
    /\ down = <<>>
    /\ up = <<>>
    /\ closed_w = <<>>
    /\ closed_m = <<>>
    /\ wpc = <<>>
    /\ wmsg = <<>>
    /\ client = <<>>
    /\ wcwd = <<>>
    /\ wexc = <<>>
    /\ started = NoCounts
    /\ sent = NoCounts
    /\ processed = NoCounts
    /\ errmsgs = NoCounts

InitMono(at) ==
    /\ mpc = at
    /\ mi = 1
    /\ mresult = NewResult(failfast, Len(suite))
    /\ mcwd = TopDir

\* lines 81-99: return at once without tests, else create the workers
CreateWorkers ==
    /\ pc = "start"
    /\ IF ntest = 0
       THEN /\ pc' = "done"
            /\ UNCHANGED <<conns, workers, pipes, procs>>
       ELSE LET W == 0..(nproc - 1) IN
            /\ pc' = "bootstrap"
            /\ conns' = [x \in 1..nproc |-> x - 1]
            /\ workers' = [x \in 1..nproc |-> x - 1]
            /\ down' = [w \in W |-> <<>>]
            /\ up' = [w \in W |-> <<>>]
            /\ closed_w' = [w \in W |-> FALSE]
            /\ closed_m' = [w \in W |-> FALSE]
            /\ wpc' = [w \in W |-> "recv"]
            /\ wmsg' = [w \in W |-> <<>>]
            /\ client' = [w \in W |-> NewResult(failfast, 0)]
            /\ wcwd' = [w \in W |-> TopDir]
            /\ wexc' = [w \in W |-> ""]
    /\ UNCHANGED <<t, k, j, exc, result, history, inputs, iov, swv, cliv, monov>>

\* faulty variant: the dispatch index is not advanced
start_test_same_index(w, test_name, res, next_pc) ==
    /\ down' = [down EXCEPT ![w] = Append(@, StrMsg(test_name))]
    /\ result' = HTestResultServer_startTest(res, StrObj(test_name))
    /\ started' = [started EXCEPT ![IndexOf(test_name)] = @ + 1]
    /\ t' = t
    /\ pc' = next_pc /\ exc' = exc

\* start_test(conn, test_name): conn.send(test_name); result.startTest(test_name).
\* A send on a pipe whose worker end is closed raises BrokenPipeError.
start_test(w, test_name, res, next_pc) ==
    IF closed_w[w]
    THEN /\ pc' = "finally" /\ exc' = TRUE
         /\ result' = res
         /\ UNCHANGED <<down, started, t>>
    ELSE /\ down' = [down EXCEPT ![w] = Append(@, StrMsg(test_name))]
         /\ result' = HTestResultServer_startTest(res, StrObj(test_name))
         /\ started' = [started EXCEPT ![IndexOf(test_name)] = @ + 1]
         /\ t' = t + 1
         /\ pc' = next_pc /\ exc' = exc

\* faulty variant: nothing is sent to the worker
stop_worker_sends_nothing(w, res) ==
    /\ result' = res
    /\ pc' = pc /\ exc' = exc /\ down' = down
    /\ UNCHANGED <<started, t>>

\* stop_worker(conn) in the dispatch loop
stop_worker(w, res) ==
    /\ result' = res
    /\ IF closed_w[w]
       THEN pc' = "finally" /\ exc' = TRUE /\ down' = down
       ELSE pc' = pc /\ exc' = exc /\ down' = [down EXCEPT ![w] = Append(@, None)]
    /\ UNCHANGED <<started, t>>

\* lines 103-106: one identifier to each worker
Bootstrap ==
    /\ pc = "bootstrap"
    /\ IF t < nproc
       THEN start_test(conns[t + 1], test_names[t + 1], result, pc)
       ELSE pc' = "loop" /\ UNCHANGED <<t, exc, result, down, started>>
    /\ UNCHANGED <<conns, workers, k, j, up, closed_w, closed_m, procs,
                   sent, processed, errmsgs, inputs, iov, swv, cliv, monov>>

\* faulty variant: the stop flag is not consulted
more_to_start_ignoring_stop(res) == t < ntest

\* line 124: there is still a test to start and the run is not stopped
more_to_start(res) == t < ntest /\ ~res.should_stop

\* faulty variant: an _ErrMsg is counted as an error outcome
on_ErrMsg_counted(w) ==
    /\ result' = [result EXCEPT !.status_counters = inc(@, ERROR)]
    /\ UNCHANGED <<pc, t, exc, down, started, processed>>

\* lines 119-120: an _ErrMsg is printed and nothing else is done
on_ErrMsg(w) == UNCHANGED <<pc, t, exc, result, down, started, processed>>

\* faulty variant: the loop ends as soon as every identifier has been dispatched
loop_done_all_dispatched == t >= ntest

\* line 107: the condition that ends the dispatch loop
loop_done == conns = <<>>

\* lines 108-133: one ready connection of mp.connection.wait(conns)
Recv(w) ==
    /\ pc = "loop"
    /\ ~loop_done
    /\ w \in Range(conns)
    /\ up[w] # <<>> \/ closed_w[w]
    /\ IF up[w] = <<>>
       THEN \* EOFError: the other end has been closed
            /\ conns' = Remove(conns, w)
            /\ UNCHANGED <<pc, t, exc, result, down, up, started, processed>>
       ELSE LET msg == Head(up[w]) IN
            /\ up' = [up EXCEPT ![w] = Tail(@)]
            /\ conns' = conns
            /\ IF msg.kind = "ErrMsg"
               THEN on_ErrMsg(w)
               ELSE LET res == process_result(result, msg) IN
                    /\ processed' = [processed EXCEPT
                                        ![IndexOf(msg.test_name)] = @ + 1]
                    /\ IF more_to_start(res)
                       THEN start_test(w, test_names[t + 1], res, pc)
                       ELSE stop_worker(w, res)
    /\ UNCHANGED <<workers, k, j, closed_w, closed_m, procs, sent, errmsgs,
                   inputs, iov, swv, cliv, monov>>

\* line 107: the loop ends when the live set is empty
LoopExit ==
    /\ pc = "loop"
    /\ loop_done
    /\ pc' = "finally"
    /\ UNCHANGED <<t, conns, workers, k, j, exc, result, pipes, procs,
                   history, inputs, iov, swv, cliv, monov>>

\* lines 101-134: an exception (KeyboardInterrupt, a failure of the printer)
\* raised in the try block reaches the finally clause
Interrupt ==
    /\ pc \in {"bootstrap", "loop"}
    /\ pc' = "finally"
    /\ exc' = TRUE
    /\ UNCHANGED <<t, conns, workers, k, j, result, pipes, procs,
                   history, inputs, iov, swv, cliv, monov>>

\* the first connection of the live set, from position x on, whose worker has
\* closed its end; Len(conns) + 1 when there is none
RECURSIVE FirstBroken(_)
FirstBroken(x) ==
    IF x > Len(conns) THEN x
    ELSE IF closed_w[conns[x]] THEN x
    ELSE FirstBroken(x + 1)

\* lines 134-137: stop_worker(conn); conn.close() for each connection of the
\* live set, in order.  stop_worker raises BrokenPipeError on a connection
\* whose worker has closed its end, and the exception leaves the finally
\* clause: the connections after it are not touched and nothing is joined.
Finally ==
    /\ pc = "finally"
    /\ LET stopped == {conns[x] : x \in 1..(FirstBroken(1) - 1)} IN
       /\ k' = FirstBroken(1)
       /\ down' = [w \in DOMAIN down |->
                      IF w \in stopped THEN Append(down[w], None) ELSE down[w]]
       /\ closed_m' = [w \in DOMAIN closed_m |-> closed_m[w] \/ w \in stopped]
       /\ IF FirstBroken(1) > Len(conns)
          THEN pc' = "join" /\ exc' = exc
          ELSE pc' = "raised" /\ exc' = TRUE
    /\ UNCHANGED <<t, conns, workers, j, result, up, closed_w, procs,
                   history, inputs, iov, swv, cliv, monov>>

\* lines 140-141: p.join() for each worker, in order
Join ==
    /\ pc = "join"
    /\ \A x \in 1..Len(workers) : wpc[workers[x]] = "exited"
    /\ j' = Len(workers) + 1
    /\ pc' = (IF exc THEN "raised" ELSE "done")
    /\ UNCHANGED <<t, conns, workers, k, exc, result, pipes, procs,
                   history, inputs, iov, swv, cliv, monov>>

(* ----------------------------- _worker_run ---------------------------- *)
\* self._conn.send / conn.send in worker w.  Once the parent has closed its
\* end the send raises BrokenPipeError, unless the worker was forked: a forked
\* worker inherits a copy of the parent's end, which keeps the pipe open, and
\* the message is written for nobody to read.
send_raises(w) == closed_m[w] /\ start_method # "fork"

\* conn.recv() in worker w when nothing is pending: EOFError once no handle
\* of the parent's end is left open; a forked worker holds one itself and
\* stays blocked
recv_raises_EOFError(w) == closed_m[w] /\ start_method # "fork"

\* lines 46-59: a message that is neither None nor a str
unexpected(msg) == msg.kind \notin {"None", "str"}

\* lines 39-59: one iteration of the worker loop.  msg = conn.recv(); None
\* ends the loop; an identifier is run by _worker_run_aux(msg, result)
\* (lines 26-28): test_case.run(result) calls startTest, one outcome callback
\* per result of the test, and stopTest, which sends the TestResultMsg unless
\* the working-directory check raises first; an exception that escapes is
\* sent as an _ErrMsg and ends the loop.
worker_run_iteration(w) ==
    /\ pc \notin {"start", "off"}
    /\ w \in DOMAIN wpc
    /\ wpc[w] = "recv"
    /\ IF down[w] = <<>>
       THEN \* EOFError: the parent closed its end; RuntimeError is raised
            /\ recv_raises_EOFError(w)
            /\ wpc' = [wpc EXCEPT ![w] = "left"]
            /\ wexc' = [wexc EXCEPT ![w] = "parent died"]
            /\ UNCHANGED <<down, up, wmsg, client, wcwd, sent, errmsgs>>
       ELSE LET msg == Head(down[w]) IN
            /\ down' = [down EXCEPT ![w] = Tail(@)]
            /\ IF msg.kind = "None"
               THEN /\ wpc' = [wpc EXCEPT ![w] = "left"]
                    /\ UNCHANGED <<up, wmsg, client, wcwd, wexc, sent,
                                   errmsgs>>
               ELSE IF unexpected(msg)
               THEN /\ wpc' = [wpc EXCEPT ![w] = "left"]
                    /\ wexc' = [wexc EXCEPT ![w] = "unexpected message"]
                    /\ UNCHANGED <<up, wmsg, client, wcwd, sent, errmsgs>>
               ELSE LET test_name == msg.name
                        i == IndexOf(test_name)
                        b == suite[i]
                        test == TestCaseObj(test_name)
                        c1 == HTestResultClient_startTest(client[w], test, wcwd[w])
                        c2 == ClientOutcomes(c1, test, b.results)
                        cwd2 == cwd_after(b, wcwd[w])
                        raised == \/ ~b.load
                                  \/ CheckCWD_stopTest_raises(c2, test, cwd2)
                                  \/ send_raises(w)
                    IN /\ wmsg' = [wmsg EXCEPT ![w] = test_name]
                       /\ wexc' = wexc
                       /\ client' = [client EXCEPT ![w] =
                                        IF ~b.load THEN @
                                        ELSE IF raised THEN c2
                                        ELSE send_outcome(c2)]
                       /\ wcwd' = [wcwd EXCEPT ![w] = IF b.load THEN cwd2 ELSE @]
                       /\ IF raised
                          THEN /\ wpc' = [wpc EXCEPT ![w] = "left"]
                               /\ sent' = sent
                               /\ IF send_raises(w)
                                  THEN up' = up /\ errmsgs' = errmsgs
                                  ELSE /\ up' = [up EXCEPT ![w] = Append(@, ErrMsg(w))]
                                       /\ errmsgs' = [errmsgs EXCEPT ![i] = @ + 1]
                          ELSE /\ wpc' = wpc
                               /\ up' = [up EXCEPT ![w] =
                                            Append(@, TestResultMsg(c2, w))]
                               /\ sent' = [sent EXCEPT ![i] = @ + 1]
                               /\ errmsgs' = errmsgs
    /\ UNCHANGED <<sched, closed_w, closed_m, started, processed, inputs,
                   cliv, monov>>

\* one iteration of the worker loop, what is captured and timed left aside
WorkerStep(w) ==
    /\ worker_run_iteration(w)
    /\ UNCHANGED <<iov, swv>>

\* line 36: leaving "with conn, cov" closes the worker end; the process ends
WorkerExit(w) ==
    /\ pc \notin {"start", "off"}
    /\ w \in DOMAIN wpc
    /\ wpc[w] = "left"
    /\ wpc' = [wpc EXCEPT ![w] = "exited"]
    /\ closed_w' = [closed_w EXCEPT ![w] = TRUE]
    /\ UNCHANGED <<sched, down, up, closed_m, wmsg, client, wcwd, wexc, history,
                   inputs, iov, swv, cliv, monov>>

(* -------------------------- run_monoproc_tests ------------------------ *)
\* lines 145-150: one iteration of the loop, on the runner's own variables
MonoTestStep ==
    /\ mpc = "loop"
    /\ IF mi > ntest \/ mresult.should_stop
       THEN mpc' = "done" /\ UNCHANGED <<mi, mresult, mcwd>>
       ELSE LET test_name == test_names[mi]
                b == suite[mi]
                test == TestCaseObj(test_name)
                r1 == HTestResult_startTest(mresult, test, mcwd)
                r2 == MonoOutcomes(r1, test, b.results)
                cwd2 == cwd_after(b, mcwd)
            IN IF ~b.load
               THEN mpc' = "raised" /\ UNCHANGED <<mi, mresult, mcwd>>
               ELSE /\ mresult' = r2
                    /\ mcwd' = cwd2
                    /\ mi' = mi + 1
                    /\ mpc' = IF CheckCWD_stopTest_raises(r2, test, cwd2)
                              THEN "raised" ELSE "loop"

\* one iteration of the loop, what is printed and captured left aside
MonoTest ==
    /\ MonoTestStep
    /\ UNCHANGED <<concv, inputs, iov, swv, cliv>>

(* ------------------------------ StopWatch ----------------------------- *)
\* An attribute holding None, or not set at all, is <<>>; one holding the
\* value v is <<v>>.

\* StopWatch.reset, on the attributes obj already has: _splits_count is not
\* among those it assigns
StopWatch_reset(obj) ==
    [obj EXCEPT !.started_at = <<>>, !.last_split_time = <<>>,
                !.last_split_at = <<>>, !.total_split_time = <<>>,
                !.tick_count = 0]

\* StopWatch.__init__: reset() on a new object
StopWatch_new ==
    StopWatch_reset([started_at |-> <<>>, last_split_time |-> <<>>,
                     last_split_at |-> <<>>, total_split_time |-> <<>>,
                     tick_count |-> 0, splits_count |-> <<>>])

\* StopWatch.is_started
is_started(self) == self.started_at # <<>>

\* StopWatch.start once the check has passed
StopWatch_start(self, now) ==
    [self EXCEPT !.started_at = <<now>>, !.last_split_at = <<now>>,
                 !.last_split_time = <<>>, !.total_split_time = <<>>,
                 !.splits_count = <<0>>]

\* faulty variant: the total is overwritten by the last split time
StopWatch_split_last_only(self, now) ==
    LET last == now - self.last_split_at[1]
    IN [self EXCEPT !.last_split_time = <<last>>,
                    !.last_split_at = <<now>>,
                    !.splits_count = <<@[1] + 1>>,
                    !.total_split_time = <<last>>]

\* StopWatch.split once the check has passed
StopWatch_split(self, now) ==
    LET last == now - self.last_split_at[1]
    IN [self EXCEPT !.last_split_time = <<last>>,
                    !.last_split_at = <<now>>,
                    !.splits_count = <<@[1] + 1>>,
                    !.total_split_time =
                        IF @ = <<>> THEN <<last>> ELSE <<@[1] + last>>]

\* StopWatch.splits_count
splits_count(self) == self.splits_count

\* StopWatch.total_split_time
total_split_time(self) ==
    IF is_started(self) THEN self.total_split_time ELSE <<0>>

\* StopWatch.mean_split_time: timedelta / int rounds the quotient to the
\* nearest unit of the clock, a tie going to the even one
mean_split_time(self) ==
    IF is_started(self) /\ self.total_split_time # <<>>
    THEN LET a == self.total_split_time[1]
             b == self.splits_count[1]
             q == a \div b
             r == 2 * (a % b)
         IN IF r > b \/ (r = b /\ q % 2 = 1) THEN q + 1 ELSE q
    ELSE 0

\* StopWatch.last_split_time
last_split_time(self) == self.last_split_time

\* StopWatch.total_time, read when datetime.utcnow() returns now
total_time(self, now) ==
    IF is_started(self) THEN now - self.started_at[1] ELSE 0

NoStopWatch ==
    /\ sw = StopWatch_new
    /\ utcnow = 0
    /\ sw_raised = ""
    /\ elapsed = <<>>
    /\ server_total_split_time = 0

\* faulty variant: a started stopwatch is started again
start_unchecked(self) == FALSE

\* StopWatch.start, line 31: TRUE when it raises
start_raises(self) == is_started(self)

\* a call of start()
Start ==
    /\ IF start_raises(sw)
       THEN sw' = sw /\ sw_raised' = "stopwatch already started"
       ELSE sw' = StopWatch_start(sw, utcnow) /\ sw_raised' = ""
    /\ UNCHANGED <<utcnow, timev, inputs, iov, concv, monov, cliv>>

\* StopWatch._check_is_started: TRUE when it raises
check_is_started_raises(self) == ~is_started(self)

\* a call of split()
Split ==
    /\ is_started(sw) => sw.splits_count[1] < MaxSplits
    /\ IF check_is_started_raises(sw)
       THEN sw' = sw /\ sw_raised' = "stopwatch not started"
       ELSE sw' = StopWatch_split(sw, utcnow) /\ sw_raised' = ""
    /\ UNCHANGED <<utcnow, timev, inputs, iov, concv, monov, cliv>>

\* a call of reset()
Reset ==
    /\ sw' = StopWatch_reset(sw)
    /\ sw_raised' = ""
    /\ UNCHANGED <<utcnow, timev, inputs, iov, concv, monov, cliv>>

\* time passes
Tick ==
    /\ utcnow < MaxClock
    /\ utcnow' = utcnow + 1
    /\ UNCHANGED <<sw, sw_raised, timev, inputs, iov, concv, monov, cliv>>

\* the system clock is set, forward or backward, to another instant
SetClock ==
    /\ \E now \in 0..MaxClock : now # utcnow /\ utcnow' = now
    /\ UNCHANGED <<sw, sw_raised, timev, inputs, iov, concv, monov, cliv>>

(* ---------------------- ResultPrinter._print_error -------------------- *)
\* A line of a formatted traceback is told by what the two filename
\* predicates make of it: a 'File "...", line N, in f' line of a file under
\* the top-level directory ("user"), of a file of the unittest package
\* ("unittest"), of another file ("other"), or any other text ("text").
LineKinds == {"user", "unittest", "other", "text"}

\* an element of all_lines but the last: one string of one or more lines
Entries == UNION {[1..n -> LineKinds] : n \in 1..MaxLines}

\* _is_user_filename(lines): the pattern is matched at the start of the
\* string, so the first line of the entry decides
is_user_filename(entry) == entry[1] = "user"

\* faulty variant: every file outside the top-level directory is taken for
\* a file of the unittest package
is_unittest_filename_or_other(line) == line \in {"unittest", "other"}

\* _is_unittest_filename(line)
is_unittest_filename(line) == line = "unittest"

\* lines 351-366: the loop over the lines of one entry, from line x on;
\* what is written is the position of the line and whether it is
\* highlighted.  skip_next, once set, is not cleared before the next entry.
RECURSIVE print_entry_lines(_, _, _, _, _)
print_entry_lines(entry, x, skip_next, strip, out) ==
    IF x > Len(entry) THEN out
    ELSE IF skip_next
         THEN print_entry_lines(entry, x + 1, skip_next, strip, out)
    ELSE IF is_user_filename(entry)
         THEN print_entry_lines(entry, x + 1, skip_next, strip,
                  Append(out, [line |-> x, highlighted |-> TRUE]))
    ELSE IF strip /\ is_unittest_filename(entry[x])
         THEN print_entry_lines(entry, x + 1, TRUE, strip, out)
    ELSE print_entry_lines(entry, x + 1, skip_next, strip,
                  Append(out, [line |-> x, highlighted |-> FALSE]))

\* lines 348-366: one iteration of the loop over all_lines
PrintEntry ==
    /\ cpc = "print_error"
    /\ entries_done < MaxEntries
    /\ \E entry \in Entries :
          /\ lines' = entry
          /\ written' = print_entry_lines(entry, 1, FALSE,
                                          strip_unittest_traceback, <<>>)
    /\ entries_done' = entries_done + 1
    /\ UNCHANGED <<strip_unittest_traceback, rc, no_returncode, quiet, pager,
                   isatty, top_level_only, error_file, previous_errors,
                   collection, collected, status_db, prev_counters, cpc,
                   inputs, iov, swv, concv, monov>>

(* -------------------------- TestExecStopwatch ------------------------- *)
\* what a TestResultMsg may carry as total_time
Durations == {1, 2}

\* how long the body of a test takes, in ticks of the clock
TestDurations == {1}

\* TestExecStopwatch.startTest, on the stopwatch of the result object
TestExecStopwatch_startTest(self, now) ==
    IF ~is_started(self) THEN StopWatch_start(self, now) ELSE self

\* TestExecStopwatch.stopTest, on the stopwatch of the result object
TestExecStopwatch_stopTest(self, now) == StopWatch_split(self, now)

\* the stopwatch after a test started now whose body takes d
timed(self, now, d) ==
    TestExecStopwatch_stopTest(TestExecStopwatch_startTest(self, now),
                               now + d)

\* run_monoproc_tests, lines 145-150, with the stopwatch of the HTestResult:
\* test_case.run(result) calls startTest, the body of the test takes some
\* time, then stopTest is called
MonoTestTimed ==
    /\ MonoTestStep
    /\ IF mi' = mi
       THEN UNCHANGED <<sw, utcnow>>
       ELSE \E d \in TestDurations :
               /\ utcnow + d <= MaxClock
               /\ utcnow' = utcnow + d
               /\ sw' = timed(sw, utcnow, d)
    /\ UNCHANGED <<concv, inputs, iov, sw_raised, timev, cliv>>

\* one iteration of the worker loop with the stopwatch of the
\* HTestResultClient: _send_outcome puts last_split_time in the message
WorkerStepTimed(w) ==
    /\ worker_run_iteration(w)
    /\ IF /\ down[w] # <<>>
          /\ Head(down[w]).kind = "str"
          /\ suite[IndexOf(Head(down[w]).name)].load
       THEN \E d \in TestDurations :
               /\ utcnow + d <= MaxClock
               /\ utcnow' = utcnow + d
               /\ sw' = timed(sw, utcnow, d)
               /\ elapsed' = [i \in DOMAIN elapsed |->
                                 IF sent'[i] # sent[i]
                                 THEN last_split_time(sw') ELSE elapsed[i]]
       ELSE UNCHANGED <<sw, utcnow, elapsed>>
    /\ UNCHANGED <<iov, sw_raised, server_total_split_time>>

(* --------------------------- reported_collect ------------------------- *)
\* the identifiers a collection can hold
Identifiers == {TestSpec(i) : i \in 1..MaxTests}

\* an item yielded by filter_rules: a test name or a SkippedTestSpec
CollectionItems == [name : Identifiers, skipped : BOOLEAN]

\* _do_main has not returned; no option of main is given
\* no traceback is being printed
NoTraceback ==
    /\ strip_unittest_traceback = FALSE
    /\ lines = <<>>
    /\ entries_done = 0
    /\ written = <<>>

NoReturn ==
    /\ NoTraceback
    /\ rc = <<>>
    /\ no_returncode = FALSE
    /\ quiet = FALSE
    /\ pager = "never"
    /\ isatty = FALSE

InitCli(at) ==
    /\ cpc = at
    /\ NoReturn
    /\ prev_counters = <<>>
    /\ previous_errors = {}
    /\ collected = <<>>

\* the command-line driver takes no part in the run
NoCli ==
    /\ InitCli("off")
    /\ top_level_only = FALSE
    /\ error_file = {}
    /\ status_db = <<>>
    /\ collection = <<>>

\* cli.py lines 53-59: the failure list is loaded unless only top-level
\* specs are collected; load_error_test_specs_from returns the set of lines
load_error_test_specs == error_file

LoadPreviousErrors ==
    /\ cpc = "load"
    /\ previous_errors' = (IF top_level_only THEN {} ELSE load_error_test_specs)
    /\ cpc' = "collect"
    /\ UNCHANGED <<top_level_only, mainv, error_file, collection, collected,
                   status_db, prev_counters, inputs, iov, swv, concv, monov>>

\* faulty variant: a previously failed test is queued like any other
enqueue_at_end(test_names_, test_name) == Append(test_names_, test_name)

\* cli.py lines 78-81: a name of the failure list goes to the front of the
\* list, any other to its end
enqueue(test_names_, test_name) ==
    IF ~top_level_only /\ test_name \in previous_errors
    THEN <<test_name>> \o test_names_
    ELSE Append(test_names_, test_name)

\* cli.py lines 66-82: one iteration over filter_rules(collection); n counts
\* the names kept
Collect ==
    /\ cpc = "collect"
    /\ IF collection = <<>>
       THEN cpc' = "collected" /\ UNCHANGED <<collection, collected>>
       ELSE /\ collection' = Tail(collection)
            /\ collected' = (IF Head(collection).skipped THEN collected
                             ELSE enqueue(collected, Head(collection).name))
            /\ cpc' = cpc
    /\ UNCHANGED <<top_level_only, mainv, error_file, previous_errors,
                   status_db, prev_counters, inputs, iov, swv, concv, monov>>

(* ------------------------------ _do_main ------------------------------ *)
\* behaviours drawn for a run under the command-line driver
CliBehaviours == {b \in OneOutcome : b.results[1] \in {PASS, FAIL}}
                 \cup {b \in SubTests : b.results[2] = FAIL}
                 \cup {b \in Faulty : ~b.load}

\* cli.py lines 426-428: nothing was collected, _do_main returns 0 and no
\* result object is made
ReturnNoTest ==
    /\ cpc = "run"
    /\ ntest = 0
    /\ cpc' = "exit"
    /\ UNCHANGED <<top_level_only, mainv, error_file, previous_errors, collection,
                   collected, status_db, prev_counters, inputs, iov, swv, concv, monov>>

\* StatusTracker.status_scores: the count of each stopped status, keyed by
\* the value of the status
status_scores(self) == [s \in Stopped |-> self.status_counters[s]]

\* StatusDB.load: None when the file is absent, else its content
StatusDB_load == status_db

\* StatusDB.save: the file afterwards
StatusDB_save(scores) == <<scores>>

\* StatusTracker.load_status: what it returns
load_status(self) == IF ~self.should_stop THEN StatusDB_load ELSE <<>>

\* faulty variant: the snapshot is written when the run was stopped too
save_status_always(self) == StatusDB_save(status_scores(self))

\* StatusTracker.save_status: the file afterwards
save_status(self) ==
    IF ~self.should_stop THEN StatusDB_save(status_scores(self)) ELSE status_db

\* cli.py lines 435-447: the result object _do_main made, an HTestResult
\* when options.njobs == 0 and an HTestResultServer otherwise
TheResult == IF njobs = 0 THEN mresult ELSE result

\* the runner _do_main called has returned
RunnerReturned == IF njobs = 0 THEN mpc = "done" ELSE pc = "done"

\* an exception came out of the runner _do_main called
RunnerRaised == IF njobs = 0 THEN mpc = "raised" ELSE pc = "raised"

\* cli.py lines 448-452: the runner returned and print_summary is called;
\* or it raised and the exception is written
AfterRun ==
    /\ cpc = "run"
    /\ ntest > 0
    /\ RunnerReturned \/ RunnerRaised
    /\ IF RunnerReturned
       THEN /\ prev_counters' = load_status(TheResult)
            /\ status_db' = save_status(TheResult)
       ELSE UNCHANGED <<prev_counters, status_db>>
    /\ cpc' = "finally"
    /\ UNCHANGED <<top_level_only, mainv, error_file, previous_errors, collection,
                   collected, inputs, iov, swv, concv, monov>>

\* write_error_test_specs: the file is reloaded, the erroneous specs of the
\* run are added, the succeeded ones removed, and the lines written back
write_error_test_specs(self) ==
    (load_error_test_specs \cup self.error_test_specs)
        \ self.succeed_test_specs

\* cli.py lines 453-458: the finally clause
WriteErrorTestSpecs ==
    /\ cpc = "finally"
    /\ error_file' = write_error_test_specs(TheResult)
    /\ cpc' = "exit"
    /\ UNCHANGED <<top_level_only, mainv, previous_errors, collection, collected,
                   status_db, prev_counters, inputs, iov, swv, concv, monov>>

(* -------------------------- main and exit codes ----------------------- *)
\* cli.py lines 422-425: reported_collect returns the list of test names
reported_collect_returns ==
    /\ cpc = "collect"
    /\ cpc' = "run"
    /\ UNCHANGED <<top_level_only, mainv, error_file, previous_errors,
                   collection, collected, status_db, prev_counters, inputs,
                   iov, swv, concv, monov>>

\* cli.py lines 422-425 and 450-458: reported_collect raises; the except
\* clause writes the exception and the finally clause finds result None, so
\* write_error_test_specs is not called
reported_collect_raises ==
    /\ cpc = "collect"
    /\ cpc' = "collect raised"
    /\ UNCHANGED <<top_level_only, mainv, error_file, previous_errors,
                   collection, collected, status_db, prev_counters, inputs,
                   iov, swv, concv, monov>>

\* cli.py lines 177-178
is_pdb_on == ~quiet /\ njobs <= 0 /\ pdb

\* cli.py lines 159-175: maybe_spawn_pager reaches spawn_pager, whose
\* os.execvp replaces the process by the pager
spawns_pager == ~quiet /\ pager = "auto" /\ isatty

\* what can come out of the runner: the single-process runner lets out the
\* RuntimeError of the working-directory check and what loading a test
\* raises; out of the scheduler's try block comes any exception, a
\* KeyboardInterrupt included
Exceptions == IF njobs = 0 THEN {"Exception"}
              ELSE {"Exception", "KeyboardInterrupt"}

\* cli.py lines 426-428, 450-452 and 459-477: the return statement _do_main
\* reaches.  "except Exception" catches e and returns 2 unless e is a
\* KeyboardInterrupt, which goes on through main; a failed run enters pdb
\* and returns 1, or calls maybe_spawn_pager, which does not return when it
\* spawns the pager.
Return(e) ==
    /\ cpc \in {"exit", "collect raised"}
    /\ rc = <<>>
    /\ IF cpc = "collect raised"
       THEN rc' = <<2>> /\ cpc' = cpc
       ELSE IF ntest = 0
       THEN rc' = <<0>> /\ cpc' = "returned"
       ELSE IF RunnerRaised
       THEN IF e = "Exception"
            THEN rc' = <<2>> /\ cpc' = "returned"
            ELSE rc' = rc /\ cpc' = "propagated"
       ELSE IF wasSuccessful(TheResult)
       THEN rc' = <<0>> /\ cpc' = "returned"
       ELSE IF is_pdb_on
       THEN rc' = <<1>> /\ cpc' = "returned"
       ELSE IF spawns_pager
       THEN rc' = rc /\ cpc' = "execvp"
       ELSE rc' = <<1>> /\ cpc' = "returned"
    /\ UNCHANGED <<top_level_only, no_returncode, quiet, pager, isatty, tbv,
                   error_file, previous_errors, collection, collected,
                   status_db, prev_counters, inputs, iov, swv, concv, monov>>

\* cli.py line 372: what main returns
main == IF no_returncode THEN 0 ELSE rc[1]

\* the exit status of the process, when it has one that hunittest chose:
\* sys_main exits with what main returned
exit_status == IF rc # <<>> THEN <<main>> ELSE <<>>

(* ----------------------------- CaptureStdio --------------------------- *)
\* sys.stdout and sys.stderr are "original", the streams of the process when
\* the result object was made, or "buffer", the StringIO of the object.  A
\* buffer is the sequence of the chunks written to it, a chunk <<i, channel>>
\* being what test i wrote to that channel; a value is <<>> for None and
\* <<chunks>> for the string read from a buffer.

\* CaptureStdio.__init__: buffer=True unless the keyword is given
CaptureStdio_new(kwd) ==
    [buffer |-> IF kwd = <<>> THEN TRUE ELSE kwd[1],
     sys_stdout |-> "original", sys_stderr |-> "original",
     stdout_buffer |-> <<>>, stderr_buffer |-> <<>>,
     stdout_value |-> <<>>, stderr_value |-> <<>>]

\* CaptureStdio._setupStdout
setupStdout(self) ==
    [self EXCEPT !.sys_stdout = "buffer", !.sys_stderr = "buffer",
                 !.stdout_value = <<>>, !.stderr_value = <<>>]

\* faulty variant: the buffers are not truncated
restoreStdout_keeps_buffers(self) ==
    [self EXCEPT !.sys_stdout = "original", !.sys_stderr = "original"]

\* CaptureStdio._restoreStdout
restoreStdout(self) ==
    [self EXCEPT !.sys_stdout = "original", !.sys_stderr = "original",
                 !.stdout_buffer = <<>>, !.stderr_buffer = <<>>]

\* CaptureStdio.startTest
CaptureStdio_startTest(self) ==
    IF self.buffer THEN setupStdout(self) ELSE self

\* CaptureStdio.stopTest; super().stopTest(test), the stopwatch split, has
\* returned
CaptureStdio_stopTest(self) ==
    IF self.buffer
    THEN restoreStdout([self EXCEPT !.stdout_value = <<self.stdout_buffer>>,
                                    !.stderr_value = <<self.stderr_buffer>>])
    ELSE self

\* the body of test i writes to sys.stdout and to sys.stderr
test_writes(self, i) ==
    [self EXCEPT
        !.stdout_buffer = IF self.sys_stdout = "buffer" /\ stdio[i].stdout
                          THEN Append(@, <<i, "stdout">>) ELSE @,
        !.stderr_buffer = IF self.sys_stderr = "buffer" /\ stdio[i].stderr
                          THEN Append(@, <<i, "stderr">>) ELSE @]

\* test_case.run(result) as CaptureStdio sees it: startTest, the body,
\* stopTest
captured(self, i) ==
    CaptureStdio_stopTest(test_writes(CaptureStdio_startTest(self), i))

(* ----------------------------- ResultPrinter -------------------------- *)
RUNNING == "running"
STOP == "stop"

\* ResultPrinter.__init__ and _LogLinePrinter.__init__ with the log file
\* name _do_main gives: the file is opened.  out is what the log_ methods
\* have written, each line with whether it went to the file; calls is the
\* sequence of the calls of print_message and print_ios.  The two flags are
\* first assigned by the RUNNING message.
ResultPrinter_new ==
    [file |-> <<"log">>, header_printed |-> <<>>, subtests_printed |-> <<>>,
     out |-> <<>>, calls |-> <<>>]

\* faulty variant: the line is written to the file whatever its state
logs_always(self) == TRUE

\* _LogLinePrinter._log, lines 89-90: TRUE when the line is written
logs(self) == self.file # <<>>

\* _LogLinePrinter.log_write_nl / log_overwrite_nl
log_write_nl(self, what, test_name, status, content) ==
    [self EXCEPT !.out = Append(@, [what |-> what, test |-> test_name,
                                    status |-> status, content |-> content,
                                    logged |-> logs(self)])]

\* _LogLinePrinter.close
LogLinePrinter_close(self) ==
    IF self.file # <<>> THEN [self EXCEPT !.file = <<>>] ELSE self

\* ResultPrinter.close
ResultPrinter_close(self) == LogLinePrinter_close(self)

\* ResultPrinter._print_subtest_params
print_subtest_params(self, test, status, params) ==
    IF params = <<>> THEN self
    ELSE [log_write_nl(self, "params", test_name_of(test), status, params)
             EXCEPT !.subtests_printed = <<TRUE>>]

\* ResultPrinter._print_header: the rule and the line "STATUS: name"
print_header(self, test, status, params) ==
    IF self.header_printed = <<TRUE>> THEN self
    ELSE LET p1 == log_write_nl(self, "header", test_name_of(test), status,
                                <<>>)
             p2 == print_subtest_params(p1, test, status, params)
         IN [p2 EXCEPT !.header_printed = <<params = <<>>>>]

\* ResultPrinter._print_error: the header, then the traceback of the test
\* and the exception message
print_error(self, test, status, params) ==
    log_write_nl(print_header(self, test, status, params),
                 "traceback", test_name_of(test), status, params)

\* ResultPrinter._print_reason
print_reason(self, test, status) ==
    log_write_nl(self, "reason", test_name_of(test), status, <<>>)

\* ResultPrinter.print_message; err and reason tell whether the argument is
\* given.  The progress line only overwrites the live display.
print_message(self, test, status, err, reason, params) ==
    LET p0 == [self EXCEPT !.calls =
                  Append(@, [call |-> "print_message",
                             test |-> test_name_of(test), status |-> status])]
        p1 == IF status = RUNNING
              THEN [p0 EXCEPT !.subtests_printed = <<FALSE>>,
                              !.header_printed = <<FALSE>>]
              ELSE p0
        p2 == IF err THEN print_error(p1, test, status, params) ELSE p1
    IN IF reason THEN print_reason(p2, test, status) ELSE p2

\* "not output": None or the empty string
falsy(output) == output = <<>> \/ output[1] = <<>>

\* ResultPrinter._print_io
print_io(self, test, output, channel) ==
    IF falsy(output) THEN self
    ELSE log_write_nl(self, channel, <<>>, "", output[1])

\* ResultPrinter.print_ios
print_ios(self, test, stdout_value, stderr_value) ==
    LET p0 == [self EXCEPT !.calls =
                  Append(@, [call |-> "print_ios",
                             test |-> test_name_of(test), status |-> ""])]
    IN IF falsy(stdout_value) /\ falsy(stderr_value) THEN p0
       ELSE LET status == IF p0.subtests_printed = <<TRUE>> THEN STOP
                          ELSE PASS
                p1 == print_header(p0, test, status, <<>>)
                p2 == print_io(p1, test, stdout_value, "stdout")
            IN print_io(p2, test, stderr_value, "stderr")

\* ResultPrinter.print_summary: the line "Ran n tests in ..."
print_summary(self) == log_write_nl(self, "summary", <<>>, "", <<>>)

\* the err, reason and params arguments of addOutcome: addFailure, addError
\* and addExpectedFailure give an error, addSkip a reason, addSubTest the
\* parameters of the sub-test (and an error when it did not pass)
has_err(status) == status \in {FAIL, ERROR, XFAIL}
has_reason(status) == status = SKIP
params_of(b, x) == IF Len(b.results) > 1 THEN <<"i", x>> ELSE <<>>

\* the print_message calls of the addOutcome callbacks of one test, from
\* outcome x on (HTestResult.addOutcome, HTestResultServer.addOutcome)
RECURSIVE PrintOutcomes(_, _, _, _)
PrintOutcomes(self, test, b, x) ==
    IF x > Len(b.results) THEN self
    ELSE PrintOutcomes(print_message(self, test, b.results[x],
                                     has_err(b.results[x]),
                                     has_reason(b.results[x]),
                                     params_of(b, x)),
                       test, b, x + 1)

\* HTestResult.stopTest once super().stopTest(test) has returned
HTestResult_stopTest_prints(self, test, capture) ==
    print_ios(self, test, capture.stdout_value, capture.stderr_value)

\* the TestResultMsg of test i: the worker's result object is made with the
\* failfast keyword only, and has restored its streams after each test
TestResultMsgOf(i) ==
    LET c == captured(CaptureStdio_new(<<>>), i)
    IN [kind |-> "TestResultMsg", worker_id |-> 0,
        test_name |-> test_names[i],
        results |-> [x \in 1..Len(suite[i].results) |->
                        [status |-> suite[i].results[x]]],
        stdout |-> c.stdout_value, stderr |-> c.stderr_value]

\* HTestResultServer.stopTest
HTestResultServer_stopTest_prints(self, test, last_result_msg) ==
    print_ios(self, test, last_result_msg.stdout, last_result_msg.stderr)

\* what HTestResultServer.process_result prints
process_result_prints(self, result_msg, b) ==
    HTestResultServer_stopTest_prints(
        PrintOutcomes(self, StrObj(result_msg.test_name), b, 1),
        StrObj(result_msg.test_name), result_msg)

\* nothing is printed or captured
NoIo ==
    /\ printer = ResultPrinter_new
    /\ stdio = <<>>
    /\ cap = CaptureStdio_new(<<>>)
    /\ pdb = FALSE
    /\ buffer_kwd = <<>>

(* ---------------------- a worker observed alone ---------------------- *)
\* a message that is neither an identifier nor the stop sentinel
Other == [kind |-> "int", name |-> <<>>]

\* what run_concurrent_tests sends next to its only worker
NextCommand == IF t < ntest THEN StrMsg(test_names[t + 1]) ELSE None

\* the parent process sends msg on its end of the pipe of worker 0
ParentSends(msg) ==
    /\ pc = "parent"
    /\ ~closed_m[0] /\ ~closed_w[0]
    /\ t <= ntest
    /\ msg.kind = "str" => t < ntest
    /\ down' = [down EXCEPT ![0] = Append(@, msg)]
    /\ t' = t + 1
    /\ UNCHANGED <<pc, conns, workers, k, j, exc, result, up, closed_w,
                   closed_m, procs, history, inputs, iov, swv, cliv, monov>>

\* the parent's end of the pipe is closed without a stop sentinel: the
\* parent process died
ParentCloses ==
    /\ pc = "parent"
    /\ ~closed_m[0]
    /\ closed_m' = [closed_m EXCEPT ![0] = TRUE]
    /\ UNCHANGED <<sched, down, up, closed_w, procs, history, inputs, iov,
                   swv, cliv, monov>>

\* one iteration of the worker loop with what the CaptureStdio part of the
\* worker's HTestResultClient does around the test
WorkerStepCaptured(w) ==
    /\ worker_run_iteration(w)
    /\ cap' = IF /\ down[w] # <<>>
                 /\ Head(down[w]).kind = "str"
                 /\ suite[IndexOf(Head(down[w]).name)].load
              THEN captured(cap, IndexOf(Head(down[w]).name))
              ELSE cap
    /\ UNCHANGED <<printer, stdio, pdb, buffer_kwd, swv>>

(* --------------- the runners as the ResultPrinter sees them ----------- *)
\* run_monoproc_tests, lines 145-150, with what HTestResult prints and
\* captures: startTest prints the RUNNING message, each addOutcome its
\* message, and stopTest the stdio block unless the working-directory check
\* raised
MonoTestPrinted ==
    /\ MonoTestStep
    /\ IF mi' = mi
       THEN UNCHANGED <<printer, cap>>
       ELSE LET test == TestCaseObj(test_names[mi])
                p1 == print_message(printer, test, RUNNING, FALSE, FALSE, <<>>)
                p2 == PrintOutcomes(p1, test, suite[mi], 1)
                c == captured(cap, mi)
            IN /\ cap' = c
               /\ printer' = IF mpc' = "raised" THEN p2
                             ELSE HTestResult_stopTest_prints(p2, test, c)
    /\ UNCHANGED <<concv, inputs, stdio, pdb, buffer_kwd, swv, cliv>>

\* the scheduler's calls on its result object, the workers and their pipes
\* left aside: a dispatched test is awaited until its TestResultMsg, or
\* the _ErrMsg of its worker, has been received
Awaited(i) == started[i] = 1 /\ processed[i] = 0 /\ errmsgs[i] = 0

\* runner.py lines 103-106: start_test for the first nproc identifiers
DispatchFirst ==
    /\ pc = "bootstrap"
    /\ IF t < nproc
       THEN /\ printer' = print_message(printer, StrObj(test_names[t + 1]),
                                        RUNNING, FALSE, FALSE, <<>>)
            /\ result' = HTestResultServer_startTest(
                             result, StrObj(test_names[t + 1]))
            /\ started' = [started EXCEPT ![t + 1] = @ + 1]
            /\ t' = t + 1
            /\ pc' = pc
       ELSE pc' = "loop" /\ UNCHANGED <<t, result, started, printer>>
    /\ UNCHANGED <<conns, workers, k, j, exc, pipes, procs, sent, processed,
                   errmsgs, inputs, monov, cliv, swv, stdio, cap, pdb,
                   buffer_kwd>>

\* runner.py lines 118-128: the message of the worker that ran test i is
\* received.  An _ErrMsg (the test could not be loaded, or changed the
\* working directory) is printed with print() and its worker is given
\* nothing more; a TestResultMsg is processed and the next test started on
\* the same worker.
ArriveStep(i) ==
    /\ pc = "loop"
    /\ i \in 1..ntest
    /\ Awaited(i)
    /\ IF ~suite[i].load \/ suite[i].chdir
       THEN /\ errmsgs' = [errmsgs EXCEPT ![i] = 1]
            /\ UNCHANGED <<t, result, started, processed, printer>>
       ELSE LET msg == TestResultMsgOf(i)
                res == process_result(result, msg)
                p1 == process_result_prints(printer, msg, suite[i])
            IN /\ processed' = [processed EXCEPT ![i] = @ + 1]
               /\ errmsgs' = errmsgs
               /\ IF more_to_start(res)
                  THEN /\ printer' = print_message(
                                        p1, StrObj(test_names[t + 1]),
                                        RUNNING, FALSE, FALSE, <<>>)
                       /\ result' = HTestResultServer_startTest(
                                        res, StrObj(test_names[t + 1]))
                       /\ started' = [started EXCEPT ![t + 1] = @ + 1]
                       /\ t' = t + 1
                  ELSE /\ printer' = p1
                       /\ result' = res
                       /\ UNCHANGED <<t, started>>
    /\ UNCHANGED <<pc, conns, workers, k, j, exc, pipes, procs, sent,
                   inputs, monov, cliv, stdio, cap, pdb, buffer_kwd>>

Arrive(i) == ArriveStep(i) /\ UNCHANGED swv

\* timedelta.__truediv__ by an int: the quotient is rounded to the nearest
\* unit of the clock, a tie going to the even one
timedelta_truediv(a, b) ==
    LET q == a \div b
        r == 2 * (a % b)
    IN IF r > b \/ (r = b /\ q % 2 = 1) THEN q + 1 ELSE q

\* RunProgress.progress, the quotient _tests_run / _total_tests kept as a
\* fraction
RunProgress_progress(self) == [num |-> self.tests_run, den |-> self.total_tests]

\* HTestResultServer.total_split_time
HTestResultServer_total_split_time(self) == server_total_split_time

\* faulty variant: the mean is taken over all the tests of the run
HTestResultServer_mean_split_time_of_all(self) ==
    IF self.tests_run = 0 THEN 0
    ELSE timedelta_truediv(HTestResultServer_total_split_time(self),
                           self.total_tests)

\* HTestResultServer.mean_split_time
HTestResultServer_mean_split_time(self) ==
    IF self.tests_run = 0 THEN 0
    ELSE timedelta_truediv(HTestResultServer_total_split_time(self),
                           self.tests_run)

\* faulty variant: the total is replaced by the time of the last message
process_result_total_last_only(total, total_time_) == total_time_

\* HTestResultServer.process_result, lines 936-937: _last_result_msg is the
\* message and its total_time is added to _total_split_time
process_result_total(total, total_time_) == total + total_time_

\* an arrival with the time bookkeeping of process_result
ArriveTimed(i) ==
    /\ ArriveStep(i)
    /\ server_total_split_time' =
           IF processed'[i] # processed[i]
           THEN process_result_total(server_total_split_time, elapsed[i][1])
           ELSE server_total_split_time
    /\ UNCHANGED <<sw, utcnow, sw_raised, elapsed>>

\* runner.py line 107: every worker has been stopped or has ended
AllArrived ==
    /\ pc = "loop"
    /\ \A i \in 1..ntest : ~Awaited(i)
    /\ pc' = "done"
    /\ UNCHANGED <<t, conns, workers, k, j, exc, result, pipes, procs,
                   history, inputs, monov, cliv, swv, iov>>

\* runner.py lines 101-134: an exception leaves the try block
Interrupted ==
    /\ pc \in {"bootstrap", "loop"}
    /\ pc' = "raised"
    /\ exc' = TRUE
    /\ UNCHANGED <<t, conns, workers, k, j, result, pipes, procs,
                   history, inputs, monov, cliv, swv, iov>>

\* cli.py line 448: result.print_summary() once the runner has returned
PrintSummary ==
    /\ cpc = "run"
    /\ pc = "done" \/ mpc = "done"
    /\ printer' = print_summary(printer)
    /\ cpc' = "summarised"
    /\ UNCHANGED <<top_level_only, mainv, error_file, previous_errors, collection,
                   collected, status_db, prev_counters, inputs, concv,
                   monov, swv, stdio, cap, pdb, buffer_kwd>>

\* cli.py lines 388-398, ResultPrinter.__exit__: the with statement is left,
\* after the summary, after the return without tests, or by an exception
ExitScope ==
    /\ \/ cpc = "summarised"
       \/ cpc = "run" /\ (ntest = 0 \/ pc = "raised" \/ mpc = "raised")
    /\ printer' = ResultPrinter_close(printer)
    /\ cpc' = "exited"
    /\ UNCHANGED <<top_level_only, mainv, error_file, previous_errors, collection,
                   collected, status_db, prev_counters, inputs, concv,
                   monov, swv, stdio, cap, pdb, buffer_kwd>>

\* _LogLinePrinter.__del__: close() is called once more
Del ==
    /\ cpc = "exited"
    /\ printer' = ResultPrinter_close(printer)
    /\ cpc' = "deleted"
    /\ UNCHANGED <<top_level_only, mainv, error_file, previous_errors, collection,
                   collected, status_db, prev_counters, inputs, concv,
                   monov, swv, stdio, cap, pdb, buffer_kwd>>

\* a log_ method is called on the printer once it is closed, which
\* _LogLinePrinter allows: the line goes to the terminal and _log returns
\* at line 90
LateSummary ==
    /\ cpc = "deleted"
    /\ printer' = print_summary(printer)
    /\ cpc' = "late"
    /\ UNCHANGED <<top_level_only, mainv, error_file, previous_errors, collection,
                   collected, status_db, prev_counters, inputs, concv,
                   monov, swv, stdio, cap, pdb, buffer_kwd>>

(* ---------------------------- specifications -------------------------- *)
Workers == 0..(MaxJobs - 1)

\* the steps of a run in which nothing raises in the scheduler's try block
Dispatch ==
    \/ CreateWorkers
    \/ Bootstrap
    \/ \E w \in Workers : Recv(w)
    \/ LoopExit
    \/ Finally
    \/ Join
    \/ \E w \in Workers : WorkerStep(w)
    \/ \E w \in Workers : WorkerExit(w)

NextConc ==
    \/ Dispatch
    \/ Interrupt

\* the concurrent runner
Init ==
    /\ NoStopWatch
    /\ NoIo
    /\ NoCli
    /\ InitInputs(ConcBehaviours, 1..MaxJobs, StartMethods)
    /\ InitSched("start")
    /\ InitMono("off")

Next == NextConc

Spec == Init /\ [][Next]_vars


\* the steps of the scheduler
Scheduler ==
    \/ CreateWorkers
    \/ Bootstrap
    \/ \E w \in Workers : Recv(w)
    \/ LoopExit
    \/ Finally
    \/ Join

\* a run in which nothing raises in the scheduler's try block.  The
\* scheduler and each worker are processes of their own, so each takes the
\* step it can take: a ready connection is received from, a worker that has
\* a command runs it to its end and then leaves.
SpecDispatch == Init /\ [][Dispatch]_vars

SpecDispatchFair ==
    /\ SpecDispatch
    /\ WF_vars(Scheduler)
    /\ \A w \in Workers : WF_vars(WorkerStep(w)) /\ WF_vars(WorkerExit(w))

\* the single-process runner
InitM ==
    /\ NoStopWatch
    /\ NoIo
    /\ NoCli
    /\ InitInputs(MonoBehaviours, {0}, {"fork"})
    /\ InitSched("off")
    /\ InitMono("loop")

NextM == MonoTest

SpecMono == InitM /\ [][NextM]_vars

\* both runners on the same tests, the concurrent one with one job and no
\* exception in the scheduler.  The two runs share no variable, so the
\* single-process run is taken first.  Without an exception in the scheduler
\* no worker sends on a closed pipe, so the start method plays no part.
InitBoth ==
    /\ NoStopWatch
    /\ NoIo
    /\ NoCli
    /\ InitInputs(MonoBehaviours, {1}, {"fork"})
    /\ InitSched("start")
    /\ InitMono("loop")

NextBoth ==
    \/ MonoTest
    \/ mpc \in {"done", "raised"} /\ Dispatch

SpecBoth == InitBoth /\ [][NextBoth]_vars

\* no run: the runners' variables of a driver that only collects
NoRun ==
    /\ suite = <<>>
    /\ test_names = <<>>
    /\ njobs = 0
    /\ failfast = FALSE
    /\ start_method = "fork"
    /\ InitSched("off")
    /\ InitMono("off")

\* reported_collect on any collection and any failure list
InitCollect ==
    /\ NoStopWatch
    /\ NoIo
    /\ NoRun
    /\ InitCli("load")
    /\ top_level_only \in BOOLEAN
    /\ error_file \in SUBSET Identifiers
    /\ status_db = <<>>
    /\ collection \in UNION {[1..n -> CollectionItems] : n \in 0..MaxTests}

NextCollect ==
    \/ LoadPreviousErrors
    \/ Collect

SpecCollect == InitCollect /\ [][NextCollect]_vars

\* the StatusDB file before the run: absent, or the scores of an earlier run
PreviousSnapshots ==
    {<<>>, <<[StatusCounters EXCEPT ![PASS] = 1]>>,
     <<[StatusCounters EXCEPT ![PASS] = 1, ![FAIL] = 1]>>}

\* _do_main with --jobs 0: the failure list has been loaded and the tests
\* collected; the run, the summary and the rewriting of the failure list
InitCliRun ==
    /\ NoStopWatch
    /\ NoIo
    /\ InitInputs(CliBehaviours, {0}, {"fork"})
    /\ InitSched("off")
    /\ InitMono(IF suite = <<>> THEN "off" ELSE "loop")
    /\ top_level_only = FALSE
    /\ error_file \in SUBSET Identifiers
    /\ previous_errors = error_file
    /\ collection = <<>>
    /\ collected = test_names
    /\ status_db \in PreviousSnapshots
    /\ prev_counters = <<>>
    /\ cpc = "run"
    /\ NoReturn

NextCliRun ==
    \/ MonoTest
    \/ ReturnNoTest
    \/ AfterRun
    \/ WriteErrorTestSpecs

SpecCliRun == InitCliRun /\ [][NextCliRun]_vars

\* behaviours drawn for a run of main: a passing and a failing test and a
\* test that changes the working directory
MainBehaviours == {b \in OneOutcome : b.results[1] \in {PASS, FAIL}}
                  \cup {b \in Faulty : b.load /\ b.results = <<PASS>>}

\* values of --jobs
JobsValues == {-1, 0, 1}

\* _do_main from the call of reported_collect on: --pdb sets options.njobs
\* to 0 and forces failfast (cli.py lines 378-384)
InitMain ==
    /\ NoStopWatch
    /\ printer = ResultPrinter_new
    /\ stdio = <<>>
    /\ buffer_kwd = <<>>
    /\ cap = CaptureStdio_new(buffer_kwd)
    /\ pdb \in BOOLEAN
    /\ suite \in SuitesOver(MainBehaviours)
    /\ test_names = [i \in 1..Len(suite) |-> TestSpec(i)]
    /\ njobs \in (IF pdb THEN {0} ELSE JobsValues)
    /\ failfast \in (IF pdb THEN {TRUE} ELSE BOOLEAN)
    /\ start_method = "fork"
    /\ InitSched(IF njobs = 0 \/ suite = <<>> THEN "off" ELSE "start")
    /\ InitMono(IF njobs = 0 /\ suite # <<>> THEN "loop" ELSE "off")
    /\ top_level_only = FALSE
    /\ error_file = {}
    /\ previous_errors = error_file
    /\ collection = <<>>
    /\ collected = test_names
    /\ status_db = <<>>
    /\ prev_counters = <<>>
    /\ cpc = "collect"
    /\ NoTraceback
    /\ rc = <<>>
    /\ no_returncode \in BOOLEAN
    /\ quiet \in BOOLEAN
    /\ pager \in {"auto", "never"}
    /\ isatty \in BOOLEAN

NextMain ==
    \/ reported_collect_returns
    \/ reported_collect_raises
    \/ cpc = "run" /\ MonoTest
    \/ cpc = "run" /\ Dispatch
    \/ cpc = "run" /\ Interrupt
    \/ ReturnNoTest
    \/ AfterRun
    \/ WriteErrorTestSpecs
    \/ \E e \in Exceptions : Return(e)

SpecMain == InitMain /\ [][NextMain]_vars

\* a StopWatch object under any sequence of calls
InitStopWatch ==
    /\ NoRun
    /\ NoCli
    /\ NoStopWatch
    /\ NoIo

NextStopWatch ==
    \/ Start
    \/ Split
    \/ Reset
    \/ Tick

SpecStopWatch == InitStopWatch /\ [][NextStopWatch]_vars

\* a ResultPrinter printing the traceback of an erroneous outcome, with the
\* option given or not
InitPrintError ==
    /\ NoRun
    /\ NoStopWatch
    /\ NoIo
    /\ cpc = "print_error"
    /\ rc = <<>>
    /\ no_returncode = FALSE
    /\ quiet = FALSE
    /\ pager = "never"
    /\ isatty = FALSE
    /\ prev_counters = <<>>
    /\ previous_errors = {}
    /\ collected = <<>>
    /\ top_level_only = FALSE
    /\ error_file = {}
    /\ status_db = <<>>
    /\ collection = <<>>
    /\ strip_unittest_traceback \in BOOLEAN
    /\ lines = <<>>
    /\ entries_done = 0
    /\ written = <<>>

NextPrintError == PrintEntry

SpecPrintError == InitPrintError /\ [][NextPrintError]_vars

\* a StopWatch object while the system clock is being adjusted
NextStopWatchAdjusted ==
    \/ NextStopWatch
    \/ SetClock

SpecStopWatchAdjusted == InitStopWatch /\ [][NextStopWatchAdjusted]_vars

\* what a test writes: nothing, or something on both channels
StdioValues == {[stdout |-> FALSE, stderr |-> FALSE],
                [stdout |-> TRUE, stderr |-> TRUE]}

\* one worker, started, with its pipe: the state run_concurrent_tests leaves
\* after lines 88-99 with nproc = 1
InitWorkerAlone ==
    /\ pc = "parent"
    /\ t = 0
    /\ conns = <<0>>
    /\ workers = <<0>>
    /\ k = 1
    /\ j = 1
    /\ exc = FALSE
    /\ result = NewResult(failfast, Len(suite))
    /\ down = [w \in {0} |-> <<>>]
    /\ up = [w \in {0} |-> <<>>]
    /\ closed_w = [w \in {0} |-> FALSE]
    /\ closed_m = [w \in {0} |-> FALSE]
    /\ wpc = [w \in {0} |-> "recv"]
    /\ wmsg = [w \in {0} |-> <<>>]
    /\ client = [w \in {0} |-> NewResult(failfast, 0)]
    /\ wcwd = [w \in {0} |-> TopDir]
    /\ wexc = [w \in {0} |-> ""]
    /\ started = NoCounts
    /\ sent = NoCounts
    /\ processed = NoCounts
    /\ errmsgs = NoCounts

\* behaviours drawn for a captured run: a passing test, a test that changes
\* the working directory, a test that cannot be loaded
CaptureBehaviours ==
    {b \in OneOutcome : b.results[1] = PASS}
    \cup {b \in Faulty : b.results # <<FAIL>>}

\* the result object that runs the tests: the HTestResult of _do_main with
\* --jobs 0, where --pdb forces failfast (cli.py lines 378-384), or the
\* HTestResultClient of a worker that is given the identifiers in order and
\* then the stop sentinel.  The buffer keyword is given or not.
InitCapture ==
    /\ NoStopWatch
    /\ NoCli
    /\ suite \in SuitesOver(CaptureBehaviours)
    /\ test_names = [i \in 1..Len(suite) |-> TestSpec(i)]
    /\ njobs \in {0, 1}
    /\ pdb \in (IF njobs = 0 THEN BOOLEAN ELSE {FALSE})
    /\ failfast = pdb
    /\ start_method = "fork"
    /\ IF njobs = 0
       THEN InitSched("off") /\ InitMono("loop")
       ELSE InitWorkerAlone /\ InitMono("off")
    /\ printer = ResultPrinter_new
    /\ stdio \in [1..Len(suite) -> StdioValues]
    /\ buffer_kwd \in {<<>>, <<FALSE>>, <<TRUE>>}
    /\ cap = CaptureStdio_new(buffer_kwd)

NextCapture ==
    \/ MonoTestPrinted
    \/ ParentSends(NextCommand)
    \/ WorkerStepCaptured(0)
    \/ WorkerExit(0)

SpecCapture == InitCapture /\ [][NextCapture]_vars

\* a worker and whatever its parent may do on the pipe: send the next
\* identifier, the stop sentinel or something else, or close its end
InitWorker ==
    /\ NoStopWatch
    /\ NoIo
    /\ NoCli
    /\ InitInputs(ConcBehaviours, {1}, StartMethods)
    /\ InitMono("off")
    /\ InitWorkerAlone

NextWorker ==
    \/ ParentSends(NextCommand)
    \/ ParentSends(None)
    \/ ParentSends(Other)
    \/ ParentCloses
    \/ WorkerStep(0)
    \/ WorkerExit(0)

SpecWorker == InitWorker /\ [][NextWorker]_vars

\* the worker process is scheduled: it takes the step it can take
SpecWorkerFair ==
    SpecWorker /\ WF_vars(WorkerStep(0)) /\ WF_vars(WorkerExit(0))

\* behaviours drawn for a printed run: a passing and a failing test, a
\* test with a passing and a failing sub-test, a test that changes the
\* working directory
PrinterBehaviours ==
    {b \in OneOutcome : b.results[1] \in {PASS, FAIL}}
    \cup {b \in SubTests : b.results[2] = FAIL}
    \cup {b \in Faulty : b.chdir /\ b.results[1] = PASS}

\* _do_main from the creation of the ResultPrinter to the end of its scope,
\* with --jobs 0 (single process) or more
InitPrinter ==
    /\ NoStopWatch
    /\ InitInputs(PrinterBehaviours, 0..MaxJobs, {"fork"})
    /\ InitSched(IF njobs = 0 \/ ntest = 0 THEN "off" ELSE "bootstrap")
    /\ InitMono(IF njobs = 0 /\ ntest > 0 THEN "loop" ELSE "off")
    /\ InitCli("run")
    /\ top_level_only = FALSE
    /\ error_file = {}
    /\ status_db = <<>>
    /\ collection = <<>>
    /\ printer = ResultPrinter_new
    /\ stdio \in [1..Len(suite) -> StdioValues]
    /\ cap = CaptureStdio_new(<<>>)
    /\ pdb = FALSE
    /\ buffer_kwd = <<>>

NextPrinter ==
    \/ MonoTestPrinted
    \/ DispatchFirst
    \/ \E i \in 1..MaxTests : Arrive(i)
    \/ AllArrived
    \/ Interrupted
    \/ PrintSummary
    \/ ExitScope
    \/ Del
    \/ LateSummary

SpecPrinter == InitPrinter /\ [][NextPrinter]_vars

\* a concurrent run as its HTestResultServer sees it, each TestResultMsg
\* carrying a total_time
InitProgress ==
    /\ sw = StopWatch_new
    /\ utcnow = 0
    /\ sw_raised = ""
    /\ InitInputs(PrinterBehaviours, 1..MaxJobs, {"fork"})
    /\ InitSched(IF ntest = 0 THEN "done" ELSE "bootstrap")
    /\ InitMono("off")
    /\ NoCli
    /\ printer = ResultPrinter_new
    /\ stdio = [i \in 1..Len(suite) |-> [stdout |-> FALSE, stderr |-> FALSE]]
    /\ cap = CaptureStdio_new(<<>>)
    /\ pdb = FALSE
    /\ buffer_kwd = <<>>
    /\ elapsed \in [1..Len(suite) -> {<<d>> : d \in Durations}]
    /\ server_total_split_time = 0

NextProgress ==
    \/ DispatchFirst
    \/ \E i \in 1..MaxTests : ArriveTimed(i)
    \/ AllArrived
    \/ Interrupted

SpecProgress == InitProgress /\ [][NextProgress]_vars

\* behaviours drawn for a timed run: a passing test, a test with a passing
\* and a failing sub-test, a test that cannot be loaded
TimedBehaviours == ConcBehaviours

\* the tests run one after the other by the result object that owns the
\* stopwatch: the HTestResult of run_monoproc_tests (--jobs 0), or the
\* HTestResultClient of a worker that is given the identifiers in order and
\* then the stop sentinel.  Time also passes between two tests, while the
\* next test is loaded or the worker waits for its next command.
InitTimed ==
    /\ sw = StopWatch_new
    /\ utcnow = 0
    /\ sw_raised = ""
    /\ server_total_split_time = 0
    /\ NoIo
    /\ NoCli
    /\ InitInputs(TimedBehaviours, {0, 1}, {"fork"})
    /\ elapsed = [i \in 1..Len(suite) |-> <<>>]
    /\ IF njobs = 0
       THEN InitSched("off") /\ InitMono("loop")
       ELSE InitWorkerAlone /\ InitMono("off")

NextTimed ==
    \/ MonoTestTimed
    \/ ParentSends(NextCommand)
    \/ WorkerStepTimed(0)
    \/ WorkerExit(0)
    \/ Tick

SpecTimed == InitTimed /\ [][NextTimed]_vars

(* ------------------------------ properties ---------------------------- *)
W == DOMAIN wpc

RECURSIVE SumUpTo(_, _)
SumUpTo(f, n) == IF n = 0 THEN 0 ELSE f[n] + SumUpTo(f, n - 1)
Total(f) == SumUpTo(f, Len(suite))

\* the scheduler takes the first message of up[w] in this step
Receives(w, kind) ==
    /\ up[w] # <<>>
    /\ Head(up[w]).kind = kind
    /\ up'[w] = Tail(up[w])

\* the scheduler sends msg-kind `kind' to worker w in this step
Sends(w, kind) ==
    /\ Len(down'[w]) > 0
    /\ down'[w][Len(down'[w])].kind = kind
    /\ down'[w] = Append(down[w], down'[w][Len(down'[w])])

\* the pipes exist before and after the step
Piped == DOMAIN up # {} /\ DOMAIN up' # {}

is_erroneous_test(b) == \E x \in 1..Len(b.results) : is_erroneous(b.results[x])

\* C1: with failfast, once the stop flag of the scheduler's result is set no
\* step calls start_test again (no identifier is sent, testsRun and the
\* dispatch index stay), every worker whose TestResultMsg is received from
\* then on is sent the stop sentinel, and that message is still aggregated
\* by process_result.
C1_NoDispatchAfterStop ==
    [][ (failfast /\ result'.should_stop) =>
          /\ started' = started
          /\ t' = t
          /\ result'.tests_run = result.tests_run
          /\ Piped => \A w \in DOMAIN up :
                 /\ ~Sends(w, "str")
                 /\ Receives(w, "TestResultMsg") =>
                      /\ Sends(w, "None")
                      /\ processed'[IndexOf(Head(up[w]).test_name)]
                           = processed[IndexOf(Head(up[w]).test_name)] + 1 ]_vars

\* Two workers, three tests: the first test failed and set the flag, the
\* second, in flight at that time, was aggregated afterwards (had it been
\* aggregated before, the third would have been started).
C1_Witness ==
    /\ failfast /\ result.should_stop
    /\ pc = "done"
    /\ Len(suite) = 3 /\ njobs = 2
    /\ suite[1].results = <<PASS, FAIL>>
    /\ processed[1] = 1 /\ processed[2] = 1 /\ started[3] = 0

(* first test of the suite with an erroneous outcome, 0 when there is none *)
RECURSIVE FirstErroneousFrom(_, _)
FirstErroneousFrom(s, i) ==
    IF i > Len(s) THEN 0
    ELSE IF is_erroneous_test(s[i]) THEN i
    ELSE FirstErroneousFrom(s, i + 1)
FirstErroneous(s) == FirstErroneousFrom(s, 1)

\* C2: single process with failfast: once an erroneous outcome has been
\* recorded no later test is started, and when the runner returns testsRun
\* is the 1-based position of the first test with an erroneous outcome.
C2_MonoFailfast ==
    /\ [](( mpc = "done" /\ failfast /\ FirstErroneous(suite) # 0) =>
            /\ mresult.tests_run = FirstErroneous(suite)
            /\ mi = FirstErroneous(suite) + 1)
    /\ [][ (failfast /\ ~wasSuccessful(mresult)) =>
             mresult'.tests_run = mresult.tests_run ]_vars

C2_Witness ==
    /\ mpc = "done" /\ failfast
    /\ Len(suite) = 3
    /\ suite[1].results = <<PASS>> /\ suite[2].results = <<FAIL>>
    /\ suite[3].results = <<PASS>>
    /\ mresult.tests_run = 2

LastSent(w) == down'[w][Len(down'[w])]

\* C3: after the bootstrap an identifier is sent to a worker only in the step
\* that receives a TestResultMsg from that worker; the identifier sent is
\* always test_names[t], the first not yet dispatched, so identifiers are
\* started in queue order, each at most once; a worker whose TestResultMsg
\* is received when none remains or the stop flag is set is sent None.
C3_DispatchInOrder ==
    /\ [](\A i \in 1..Len(suite) : started[i] = (IF i <= t THEN 1 ELSE 0))
    /\ [][ Piped => \A w \in DOMAIN up :
             /\ Sends(w, "str") =>
                  /\ LastSent(w).name = test_names[t + 1]
                  /\ t' = t + 1
                  /\ pc # "bootstrap" => Receives(w, "TestResultMsg")
             /\ (Receives(w, "TestResultMsg")
                   /\ (t = Len(test_names) \/ result'.should_stop)) =>
                  Sends(w, "None") ]_vars

\* Two workers and three tests, all dispatched and aggregated: the third was
\* sent in answer to a report, and the workers were then told to stop.
C3_Witness ==
    /\ pc = "done" /\ njobs = 2 /\ Len(suite) = 3
    /\ t = 3 /\ ~result.should_stop
    /\ \A i \in 1..3 : processed[i] = 1

\* tests dispatched to worker w whose report the scheduler has not received
InFlight(w) ==
    Cardinality({x \in 1..Len(down[w]) : down[w][x].kind = "str"}) + Len(up[w])

RECURSIVE SumInFlight(_)
SumInFlight(ws) ==
    IF ws = {} THEN 0
    ELSE LET w == CHOOSE x \in ws : TRUE
         IN InFlight(w) + SumInFlight(ws \ {w})

\* C4: min(len(test_names), njobs) workers are created, the bootstrap hands
\* one identifier to each of them, and at any time a worker has at most one
\* dispatched test whose report is outstanding, so the tests in flight never
\* exceed the pool size.
C4_PoolBound ==
    (pc \notin {"start", "off"} /\ Len(test_names) > 0) =>
        /\ Len(workers) = Min(Len(test_names), njobs)
        /\ DOMAIN wpc = 0..(Min(Len(test_names), njobs) - 1)
        /\ pc = "bootstrap" =>
             \A w \in DOMAIN wpc : InFlight(w) = (IF w < t THEN 1 ELSE 0)
        /\ \A w \in DOMAIN wpc : InFlight(w) <= 1
        /\ SumInFlight(DOMAIN wpc) <= Len(workers)

\* Both workers of a two-job run are busy, the second round being under way.
C4_Witness ==
    /\ pc = "loop" /\ njobs = 2 /\ Len(suite) = 3 /\ t = 3
    /\ \A w \in DOMAIN wpc : InFlight(w) = 1

\* C5: on every exit path of run_concurrent_tests (normal return or an
\* exception raised in the dispatch loop) every connection still in the live
\* set has been sent the stop sentinel and closed, and every worker started
\* has been joined.
C5_CleanupOnEveryExit ==
    (pc \in {"done", "raised"} /\ Len(workers) > 0) =>
        /\ \A w \in Range(conns) : closed_m[w]
        /\ j > Len(workers)

\* What the finally clause does achieve: it runs to the end unless
\* stop_worker meets a connection whose worker has already closed its end.
C5_CleanupUnlessBrokenPipe ==
    (pc \in {"done", "raised"} /\ Len(workers) > 0) =>
        \/ /\ \A w \in Range(conns) : closed_m[w]
           /\ j > Len(workers)
        \/ /\ k <= Len(conns)
           /\ closed_w[conns[k]]
           /\ \A x \in 1..(k - 1) : closed_m[conns[x]]

\* C6: when run_concurrent_tests returns normally every identifier that was
\* dispatched has been aggregated by process_result: the number of
\* aggregated tests equals testsRun.
C6_AllAggregated ==
    pc = "done" =>
        /\ \A i \in 1..Len(suite) : processed[i] = started[i]
        /\ Total(processed) = result.tests_run

\* C6 (amended): when run_concurrent_tests returns normally every dispatched
\* identifier for which a worker sent a TestResultMsg has been aggregated
\* exactly once, and the only dispatched identifiers not aggregated are those
\* whose worker ended with an _ErrMsg: aggregated = testsRun - faulted.
C6_AggregatedOrFaulted ==
    pc = "done" =>
        /\ \A i \in 1..Len(suite) :
              /\ processed[i] = sent[i]
              /\ started[i] = sent[i] + errmsgs[i]
        /\ Total(started) = result.tests_run
        /\ Total(processed) = result.tests_run - Total(errmsgs)

\* A normal return after three dispatches, one of which ended in an _ErrMsg.
C6_Witness ==
    /\ pc = "done" /\ njobs = 2 /\ Len(suite) = 3
    /\ result.tests_run = 3
    /\ Total(errmsgs) = 1 /\ Total(processed) = 2

\* the SubtestResult list a complete run of test i yields
ResultsOf(i) == [y \in 1..Len(suite[i].results) |-> [status |-> suite[i].results[y]]]

\* TestResultMsg for identifier i sent and not yet received by the scheduler
InUp(i) ==
    Cardinality({<<w, x>> \in (DOMAIN up) \X (1..2) :
                    /\ x <= Len(up[w])
                    /\ up[w][x].kind = "TestResultMsg"
                    /\ IndexOf(up[w][x].test_name) = i})

RECURSIVE CountAll(_, _)
CountAll(counters, results) ==
    IF results = <<>> THEN counters
    ELSE CountAll([counters EXCEPT ![Head(results).status] = @ + 1],
                  Tail(results))

\* C7: a worker sends one TestResultMsg per test it completes, carrying the
\* identifier of that test and exactly its sub-results; every message sent
\* is either still in the pipe or has been passed once to process_result
\* (none duplicated, none lost when the run returns), and receiving one
\* aggregates exactly the sub-results it carries.
C7_OneMessagePerTest ==
    /\ [](\A w \in DOMAIN up : \A x \in 1..Len(up[w]) :
             up[w][x].kind = "TestResultMsg" =>
                LET i == IndexOf(up[w][x].test_name) IN
                /\ up[w][x].worker_id = w
                /\ up[w][x].test_name = test_names[i]
                /\ up[w][x].results = ResultsOf(i)
                /\ started[i] = 1)
    /\ [](\A i \in 1..Len(suite) :
             /\ sent[i] <= 1
             /\ sent[i] = processed[i] + InUp(i))
    /\ [](pc = "done" => \A i \in 1..Len(suite) :
             /\ processed[i] = sent[i]
             /\ (started[i] = 1 /\ suite[i].load /\ ~suite[i].chdir) => sent[i] = 1)
    /\ [][ Piped => \A w \in DOMAIN up :
             Receives(w, "TestResultMsg") =>
                LET msg == Head(up[w]) IN
                /\ processed' = [processed EXCEPT ![IndexOf(msg.test_name)] = @ + 1]
                /\ result'.status_counters
                     = CountAll(result.status_counters, msg.results) ]_vars

\* Three tests with two sub-results each on two workers, all aggregated: one
\* worker sent two messages in a row.
C7_Witness ==
    /\ pc = "done" /\ njobs = 2 /\ Len(suite) = 3
    /\ \A i \in 1..3 : suite[i].results = <<PASS, FAIL>> /\ processed[i] = 1
    /\ result.status_counters[PASS] = 3 /\ result.status_counters[FAIL] = 3

\* worker w ended its loop on an exception it reported with an _ErrMsg
Faulted(w) == wmsg[w] # <<>> /\ errmsgs[IndexOf(wmsg[w])] >= 1

\* worker w takes an identifier in this step and an exception escapes
\* _worker_run_aux: no TestResultMsg is sent for it
Faults(w) ==
    /\ wpc[w] = "recv"
    /\ down[w] # <<>>
    /\ Head(down[w]).kind = "str"
    /\ down'[w] = Tail(down[w])
    /\ sent' = sent

\* C8: when an exception escapes test execution in a worker whose channel
\* the scheduler holds open, the worker sends one _ErrMsg and leaves its
\* loop for good; the scheduler sends no identifier to a worker that has
\* sent an _ErrMsg, receiving the _ErrMsg changes neither the result object
\* (counters, error and success sets) nor the dispatch position, and unless
\* failfast stops the run the workers that did not fault are given every
\* remaining identifier.
C8_WorkerFaultIsolated ==
    /\ [][ Piped => \A w \in DOMAIN up :
             (Faults(w) /\ ~send_raises(w)) =>
                /\ up'[w] = Append(up[w], ErrMsg(w))
                /\ errmsgs'[IndexOf(Head(down[w]).name)] = 1
                /\ wpc'[w] = "left" ]_vars
    /\ [](\A i \in 1..Len(suite) : errmsgs[i] <= 1 /\ errmsgs[i] + sent[i] <= 1)
    /\ [](\A w \in DOMAIN wpc : Faulted(w) => wpc[w] \in {"left", "exited"})
    /\ [][ Piped => \A w \in DOMAIN up :
             /\ wpc[w] \in {"left", "exited"} => wpc'[w] \in {"left", "exited"}
             /\ Sends(w, "str") => ~Faulted(w)
             /\ Receives(w, "ErrMsg") =>
                   /\ result' = result
                   /\ t' = t /\ started' = started /\ processed' = processed
                   /\ down' = down /\ pc' = pc ]_vars
    /\ [](pc = "done" /\ ~result.should_stop
            /\ (\E w \in DOMAIN wpc : ~Faulted(w)) => t = ntest)

\* The first of three tests faults on one of two workers; the other worker
\* is given the two remaining identifiers and both are aggregated.
C8_Witness ==
    /\ pc = "done" /\ njobs = 2 /\ Len(suite) = 3
    /\ errmsgs[1] = 1 /\ processed[1] = 0
    /\ t = 3 /\ processed[2] = 1 /\ processed[3] = 1
    /\ \E w \in DOMAIN wpc : Faulted(w)
    /\ result.tests_run = 3
    /\ \A s \in Stopped : result.status_counters[s] = (IF s = PASS THEN 2 ELSE 0)

\* both runs are over
BothOver == mpc \in {"done", "raised"} /\ pc \in {"done", "raised"}

SameResults ==
    /\ result.status_counters = mresult.status_counters
    /\ result.error_test_specs = mresult.error_test_specs
    /\ result.succeed_test_specs = mresult.succeed_test_specs

\* C9: for every sequence of tests and both values of failfast, once
\* run_monoproc_tests with an HTestResult and run_concurrent_tests with
\* njobs = 1 and an HTestResultServer are both over, the two result objects
\* hold the same StatusCounters, the same error set and the same success set.
C9_SameResultsAsMono == BothOver => SameResults

\* the same, for the sequences in which no test that was run left the
\* working directory changed
C9_SameResultsUnlessCwdChanged ==
    (BothOver /\ mcwd = TopDir /\ \A w \in DOMAIN wcwd : wcwd[w] = TopDir)
        => SameResults

\* the two runs of a single passing test that changes the working directory:
\* the single-process result has counted it, the scheduler's has not
C9_Diverged ==
    /\ BothOver /\ Len(suite) = 1 /\ suite[1].chdir
    /\ mresult.status_counters[PASS] = 1 /\ result.status_counters[PASS] = 0
    /\ mpc = "raised" /\ pc = "done"

RECURSIVE SumOver(_, _)
SumOver(counters, S) ==
    IF S = {} THEN 0
    ELSE LET s == CHOOSE x \in S : TRUE
         IN counters[s] + SumOver(counters, S \ {s})

\* pass_count + fail_count + error_count + skip_count + xfail_count + xpass_count
CountersSum(self) == SumOver(self.status_counters, Stopped)

\* C10: in a single-process run with failfast off of N tests that each yield
\* one outcome, the six counters add up to the number of tests run so far
\* and so does testsRun; the run does not raise, and when it is over both
\* equal N.
C10_CountersSumToN ==
    (~failfast /\ \A i \in 1..Len(suite) : suite[i] \in OneOutcome) =>
        /\ CountersSum(mresult) = mi - 1
        /\ mresult.tests_run = mi - 1
        /\ mpc # "raised"
        /\ mpc = "done" =>
              /\ CountersSum(mresult) = Len(suite)
              /\ mresult.tests_run = Len(suite)

\* a finished run of three tests: a failure, a skip, an unexpected success
C10_Witness ==
    /\ mpc = "done" /\ ~failfast /\ Len(suite) = 3
    /\ suite[1] \in OneOutcome /\ suite[1].results = <<FAIL>>
    /\ suite[2] \in OneOutcome /\ suite[2].results = <<SKIP>>
    /\ suite[3] \in OneOutcome /\ suite[3].results = <<XPASS>>
    /\ CountersSum(mresult) = 3 /\ mresult.tests_run = 3

\* the tests the single-process run has passed to test_case.run so far
MonoRan == {i \in 1..(mi - 1) : suite[i].load}

\* identifiers among S with at least one outcome satisfying / not satisfying
\* Status.is_erroneous
WithErroneous(S) ==
    {test_names[i] : i \in {x \in S : is_erroneous_test(suite[x])}}
WithSuccessful(S) ==
    {test_names[i] : i \in {x \in S :
        \E y \in 1..Len(suite[x].results) : ~is_erroneous(suite[x].results[y])}}

\* C11: when the single-process run is over, the error set holds the
\* identifiers of the tests with a fail, error or xpass outcome and the
\* success set holds the identifiers of the tests with a pass, skip or xfail
\* outcome.
C11_ErrorAndSuccessSets ==
    mpc \in {"done", "raised"} =>
        /\ mresult.error_test_specs = WithErroneous(MonoRan)
        /\ mresult.succeed_test_specs = WithSuccessful(MonoRan)

\* the error-set half alone
C11_ErrorSetOnly ==
    mpc \in {"done", "raised"} =>
        mresult.error_test_specs = WithErroneous(MonoRan)

\* [T1 pass, T2 fail, T3 pass] with failfast off: the counters and the error
\* set are as expected, the success set holds the function get_test_name
C11_Diverged ==
    /\ mpc = "done" /\ ~failfast /\ Len(suite) = 3
    /\ suite[1].results = <<PASS>> /\ suite[2].results = <<FAIL>>
    /\ suite[3].results = <<PASS>>
    /\ mresult.status_counters[PASS] = 2 /\ mresult.status_counters[FAIL] = 1
    /\ mresult.error_test_specs = {test_names[2]}
    /\ mresult.succeed_test_specs = {GetTestNameFunction}

\* C12: for the result object of either runner, in every state,
\* wasSuccessful() is true exactly when fail_count, error_count and
\* xpass_count are all 0; pass_count, skip_count and xfail_count play no part.
C12_WasSuccessfulIffNoErroneous ==
    \A self \in {mresult, result} :
        /\ wasSuccessful(self) <=>
              (self.status_counters[FAIL] = 0 /\ self.status_counters[ERROR] = 0
               /\ self.status_counters[XPASS] = 0)
        /\ wasSuccessful(self) =
              wasSuccessful([self EXCEPT !.status_counters[PASS] = 0,
                                         !.status_counters[SKIP] = 0,
                                         !.status_counters[XFAIL] = 0])

\* both runs are over, one of the three tests was an unexpected success and
\* the other two a skip and an expected failure: neither run was successful
C12_Witness ==
    /\ BothOver /\ Len(suite) = 3 /\ ~failfast
    /\ suite[1].results = <<SKIP>> /\ suite[2].results = <<XFAIL>>
    /\ suite[3].results = <<XPASS>>
    /\ \A self \in {mresult, result} :
          /\ self.status_counters[SKIP] = 1 /\ self.status_counters[XFAIL] = 1
          /\ self.status_counters[XPASS] = 1
          /\ ~wasSuccessful(self)

\* the single-process loop runs test mi in this step
MonoRuns ==
    /\ mpc = "loop" /\ mi <= ntest /\ ~mresult.should_stop
    /\ suite[mi].load
    /\ mi' = mi + 1

\* C13: in the single-process run, a test that leaves the working directory
\* changed has its outcome recorded (counters, testsRun) as any test has,
\* whatever its status, and the run then raises; once raised nothing more is
\* started; and a test that leaves the directory alone does not raise.
C13_MonoCwdChangeIsFatal ==
    /\ [][ MonoRuns =>
             /\ mresult'.status_counters
                  = CountAll(mresult.status_counters, ResultsOf(mi))
             /\ mresult'.tests_run = mresult.tests_run + 1
             /\ (suite[mi].chdir <=> mpc' = "raised") ]_vars
    /\ [][ mpc = "raised" => UNCHANGED <<mpc, mi, mresult>> ]_vars
    /\ [](mpc = "raised" /\ mi > 1 /\ suite[mi - 1].chdir =>
             /\ mresult.tests_run = mi - 1
             /\ mcwd = Elsewhere)

\* the second of three tests fails and changes the directory: the failure is
\* counted, the run has raised and the third test was not started
C13_Witness ==
    /\ mpc = "raised" /\ Len(suite) = 3 /\ ~failfast
    /\ suite[1].results = <<PASS>> /\ ~suite[1].chdir
    /\ suite[2].results = <<FAIL>> /\ suite[2].chdir
    /\ mi = 3 /\ mresult.tests_run = 2
    /\ mresult.status_counters[PASS] = 1 /\ mresult.status_counters[FAIL] = 1
    /\ mresult.error_test_specs = {test_names[2]}

\* the tests a worker has passed to test_case.run and that changed the
\* working directory
CwdChangedInWorker ==
    {i \in 1..Len(suite) :
        /\ suite[i].load /\ suite[i].chdir
        /\ \E w \in DOMAIN wmsg : wmsg[w] = test_names[i]}

\* C14: when a test run in a worker has changed the working directory, the
\* concurrent run does not return normally, and its result object does not
\* report success.
C14_ConcCwdChangeIsFatal ==
    CwdChangedInWorker # {} =>
        /\ pc # "done"
        /\ pc \in {"done", "raised"} => ~wasSuccessful(result)

\* a single passing test that changes the directory in the worker:
\* run_concurrent_tests has returned normally, no outcome was aggregated and
\* the result object reports success
C14_Diverged ==
    /\ Len(suite) = 1 /\ suite[1].chdir /\ suite[1].results = <<PASS>>
    /\ CwdChangedInWorker = {1}
    /\ pc = "done" /\ ~exc
    /\ errmsgs[1] = 1 /\ processed[1] = 0
    /\ result.status_counters = StatusCounters
    /\ wasSuccessful(result)

\* the stop flags of the result objects in use: the HTestResult, the
\* HTestResultServer and each worker's HTestResultClient
StopFlags ==
    <<mresult.should_stop, result.should_stop>>
        \o [x \in 1..Len(workers) |-> client[workers[x]].should_stop]

\* C15: without failfast no stop flag is ever set, and each run that ends
\* without an exception or a worker fault has started every identifier;
\* with failfast a stop flag that is set stays set.
C15_StopFlagOnlyWithFailfast ==
    /\ [](~failfast => \A x \in 1..Len(StopFlags) : ~StopFlags[x])
    /\ [](~failfast /\ mpc = "done" => mi = ntest + 1)
    /\ [](~failfast /\ pc = "done" /\ (\A i \in 1..Len(suite) : errmsgs[i] = 0)
             => t = ntest /\ result.tests_run = ntest)
    /\ [][ \A x \in 1..Len(StopFlags) :
             StopFlags[x] => (x <= Len(StopFlags') /\ StopFlags'[x]) ]_vars

\* with failfast, the first of three tests is an unexpected success: the
\* three objects have their flag set when both runs are over, and only that
\* test was started
C15_Witness ==
    /\ failfast /\ BothOver /\ Len(suite) = 3
    /\ suite[1].results = <<XPASS>>
    /\ StopFlags = <<TRUE, TRUE, TRUE>>
    /\ mresult.tests_run = 1 /\ result.tests_run = 1

\* what the outcomes of the first n tests add up to, taken in submission
\* order: a function of the tests alone
RECURSIVE CountersOfFirst(_)
CountersOfFirst(n) ==
    IF n = 0 THEN StatusCounters
    ELSE CountAll(CountersOfFirst(n - 1), ResultsOf(n))

NoWorkerFault == \A i \in 1..Len(suite) : suite[i].load /\ ~suite[i].chdir

\* C16: without failfast and without worker fault, when run_concurrent_tests
\* returns the StatusCounters and the error set are those determined by the
\* tests alone, whatever the number of workers and the order in which the
\* workers' results were received.
C16_ResultIndependentOfSchedule ==
    (pc = "done" /\ ~failfast /\ NoWorkerFault) =>
        /\ result.status_counters = CountersOfFirst(Len(suite))
        /\ result.error_test_specs = WithErroneous(1..Len(suite))
        /\ result.tests_run = Len(suite)

\* a result is aggregated while an identifier submitted before it is still
\* running: aggregation follows completion, not submission
C16_OutOfOrder ==
    /\ pc = "loop" /\ ~failfast /\ NoWorkerFault
    /\ Len(suite) >= 2
    /\ started[1] = 1 /\ processed[1] = 0
    /\ processed[2] = 1

\* three tests on two workers, the first one with a failing sub-test: the
\* second worker ran the second and the third test while the first worker
\* ran the first one only
C16_Witness ==
    /\ pc = "done" /\ ~failfast /\ NoWorkerFault
    /\ njobs = 2 /\ Len(suite) = 3
    /\ suite[1].results = <<PASS, FAIL>>
    /\ wmsg[0] = test_names[1] /\ wmsg[1] = test_names[3]
    /\ result.status_counters[FAIL] >= 1
    /\ result.error_test_specs # {}

\* number of positions of seq holding e
CountIn(seq, e) == Cardinality({x \in 1..Len(seq) : seq[x] = e})

\* the names reported_collect has still to go through
ToCollect == SelectSeq(collection, LAMBDA item : ~item.skipped)

\* C17: at every point of reported_collect, each name is as many times in
\* the list built so far plus the names still to come as it was collected
\* (none lost, none duplicated), and in the list every name of the failure
\* list comes before every name that is not in it.
C17_FailedFirstPermutation ==
    /\ [][ \A e \in Identifiers :
             CountIn(collected', e) + CountIn([x \in 1..Len(ToCollect') |-> ToCollect'[x].name], e)
               = CountIn(collected, e) + CountIn([x \in 1..Len(ToCollect) |-> ToCollect[x].name], e) ]_vars
    /\ [](cpc = "collected" => collection = <<>>)
    /\ [](cpc \in {"collect", "collected"} /\ ~top_level_only =>
             \A x, y \in 1..Len(collected) :
                (x < y /\ collected[y] \in error_file) => collected[x] \in error_file)

\* three names collected, the last two in the failure list: they are queued
\* first, the last collected at the head
C17_Witness ==
    /\ cpc = "collected" /\ ~top_level_only
    /\ error_file = {TestSpec(2), TestSpec(3)}
    /\ collected = <<TestSpec(3), TestSpec(2), TestSpec(1)>>

\* C18: once the failure list has been rewritten after a run, it holds the
\* previous list and the identifiers with an erroneous outcome in the run,
\* less the identifiers with a successful outcome in the run.
C18_FailureListRewritten ==
    (cpc = "exit" /\ ntest > 0) =>
        error_file = (previous_errors \cup WithErroneous(MonoRan))
                        \ WithSuccessful(MonoRan)

\* the additions alone
C18_FailureListGrows ==
    (cpc = "exit" /\ ntest > 0) =>
        error_file = previous_errors \cup WithErroneous(MonoRan)

\* the one test of the run was in the failure list and passes: it is still
\* in the rewritten list
C18_Diverged ==
    /\ cpc = "exit" /\ Len(suite) = 1 /\ suite[1].results = <<PASS>>
    /\ mpc = "done"
    /\ previous_errors = {test_names[1]}
    /\ mresult.succeed_test_specs = {GetTestNameFunction}
    /\ error_file = {test_names[1]}

\* the run returned and print_summary has been called
Summarised == cpc \in {"finally", "exit"} /\ mpc = "done"

\* C19 as stated: after every run that returned, stopped by failfast or not,
\* print_summary has read the previous snapshot and the StatusDB file holds
\* the counters of the run.
C19_SnapshotAfterEachRun ==
    /\ [][ (cpc = "run" /\ cpc' = "finally" /\ mpc = "done") =>
              prev_counters' = status_db ]_vars
    /\ [](Summarised => status_db = <<status_scores(mresult)>>)

\* C19 amended: so it is when the stop flag is not set; when failfast has set
\* it, print_summary gets no previous snapshot and the file is left as it
\* was; a run that raised prints no summary and leaves the file too.
C19_SnapshotUnlessStopped ==
    /\ [][ (cpc = "run" /\ cpc' = "finally") =>
              IF mpc = "done" /\ ~mresult.should_stop
              THEN /\ prev_counters' = status_db
                   /\ status_db' = <<status_scores(mresult)>>
              ELSE /\ prev_counters' = <<>>
                   /\ status_db' = status_db ]_vars
    /\ [](Summarised /\ ~mresult.should_stop =>
             status_db = <<status_scores(mresult)>>)
    /\ [][ cpc # "run" => status_db' = status_db ]_vars

\* a run of two tests without failfast, one failing, over an earlier
\* snapshot: the summary got the earlier snapshot and the file holds the new
\* counters
C19_Witness ==
    /\ Summarised /\ ~failfast /\ Len(suite) = 2
    /\ suite[1].results = <<FAIL>> /\ suite[2].results = <<PASS>>
    /\ prev_counters = <<[StatusCounters EXCEPT ![PASS] = 1]>>
    /\ status_db = <<[StatusCounters EXCEPT ![PASS] = 1, ![FAIL] = 1]>>

\* C20: a call of start() on a started stopwatch, and a call of split() on a
\* stopwatch that is not started, raises RuntimeError and leaves every
\* attribute of the stopwatch as it was; no other call of the two raises.
C20_InvalidCallsRaiseAndKeepState ==
    /\ [][ sw_raised' = "stopwatch already started" =>
              (is_started(sw) /\ sw' = sw) ]_vars
    /\ [][ sw_raised' = "stopwatch not started" =>
              (~is_started(sw) /\ sw' = sw) ]_vars
    /\ [][ (is_started(sw) /\ is_started(sw')) =>
              /\ sw'.started_at = sw.started_at
              /\ sw'.splits_count[1] >= sw.splits_count[1]
              /\ (sw' # sw => sw_raised' = "") ]_vars
    /\ [][ (~is_started(sw) /\ ~is_started(sw')) =>
              sw'.splits_count = sw.splits_count ]_vars
    /\ [](sw_raised = "stopwatch already started" => is_started(sw))
    /\ [](sw_raised = "stopwatch not started" => ~is_started(sw))
    /\ [](sw_raised \in {"", "stopwatch already started", "stopwatch not started"})

\* start() has just raised on a stopwatch started at 0 and split twice, at 1
\* and at 3: its attributes are those the second split left
C20_Witness ==
    /\ sw_raised = "stopwatch already started"
    /\ sw.started_at = <<0>> /\ sw.last_split_at = <<3>>
    /\ sw.splits_count = <<2>>
    /\ sw.last_split_time = <<2>> /\ sw.total_split_time = <<3>>

\* the stopwatch is started and has been split at least once
HasSplit(self) == is_started(self) /\ self.splits_count[1] >= 1

\* C21: start() sets splits_count to 0 and leaves mean_split_time at the zero
\* duration; each split() that follows adds one to splits_count, sets
\* last_split_time to the time elapsed since the previous split (since the
\* start for the first one) and adds it to total_split_time, so that
\* total_split_time is last_split_at - started_at; mean_split_time is
\* total_split_time / splits_count, to the nearest unit of the clock.
C21_SplitAccounting ==
    /\ [][ (~is_started(sw) /\ is_started(sw')) =>
              /\ splits_count(sw') = <<0>>
              /\ total_split_time(sw') = <<>>
              /\ last_split_time(sw') = <<>> ]_vars
    /\ [][ (is_started(sw) /\ sw' # sw /\ is_started(sw')) =>
              /\ splits_count(sw')[1] = splits_count(sw)[1] + 1
              /\ last_split_time(sw')[1] = utcnow - sw.last_split_at[1]
              /\ total_split_time(sw')[1] =
                     last_split_time(sw')[1] +
                     (IF HasSplit(sw) THEN total_split_time(sw)[1] ELSE 0)
              /\ sw'.last_split_at = <<utcnow>> ]_vars
    /\ [](is_started(sw) /\ ~HasSplit(sw) =>
              /\ splits_count(sw) = <<0>>
              /\ mean_split_time(sw) = 0
              /\ sw.last_split_at = sw.started_at)
    /\ [](HasSplit(sw) =>
              /\ total_split_time(sw)[1] =
                     sw.last_split_at[1] - sw.started_at[1]
              /\ last_split_time(sw)[1] >= 0
              /\ 2 * (mean_split_time(sw) * splits_count(sw)[1]
                        - total_split_time(sw)[1]) <= splits_count(sw)[1]
              /\ 2 * (total_split_time(sw)[1]
                        - mean_split_time(sw) * splits_count(sw)[1])
                     <= splits_count(sw)[1])

\* a stopwatch started at 0 and split at 1 and at 3: two splits, the last of
\* 2, a total of 3 and a mean of 3/2 rounded to 2
C21_Witness ==
    /\ sw_raised = ""
    /\ sw.started_at = <<0>> /\ sw.last_split_at = <<3>>
    /\ splits_count(sw) = <<2>>
    /\ last_split_time(sw) = <<2>> /\ total_split_time(sw) = <<3>>
    /\ mean_split_time(sw) = 2
    /\ utcnow = 3

\* C22: every duration the stopwatch reports is non-negative, and a step that
\* sets the system clock backward changes none of them.
C22_DurationsOnMonotonicClock ==
    /\ [](HasSplit(sw) => /\ last_split_time(sw)[1] >= 0
                           /\ total_split_time(sw)[1] >= 0)
    /\ [](total_time(sw, utcnow) >= 0)
    /\ [][ utcnow' < utcnow =>
              /\ total_time(sw', utcnow') = total_time(sw, utcnow)
              /\ last_split_time(sw') = last_split_time(sw)
              /\ total_split_time(sw') = total_split_time(sw) ]_vars

\* a stopwatch started at 2 whose split, after the system clock was set back
\* to 0, reports a last split time of -2
C22_Diverged ==
    /\ sw.started_at = <<2>> /\ utcnow = 0
    /\ splits_count(sw) = <<1>>
    /\ last_split_time(sw) = <<0 - 2>>
    /\ total_time(sw, utcnow) = 0 - 2

\* the position of the last header line above line ln of the output, 0 when
\* there is none
RECURSIVE LastHeaderAbove(_)
LastHeaderAbove(ln) ==
    IF ln <= 1 THEN 0
    ELSE IF printer.out[ln - 1].what = "header" THEN ln - 1
    ELSE LastHeaderAbove(ln - 1)

\* line ln of the output stands under a header that names test_name
UnderHeaderOf(ln, test_name) ==
    /\ LastHeaderAbove(ln) > 0
    /\ printer.out[LastHeaderAbove(ln)].test = test_name

\* test i has an outcome that comes with a traceback
HasTraceback(i) == \E x \in 1..Len(suite[i].results) : has_err(suite[i].results[x])

\* print_ios has been called for test i
IosPrinted(i) ==
    \E c \in 1..Len(printer.calls) :
        /\ printer.calls[c].call = "print_ios"
        /\ printer.calls[c].test = test_names[i]

\* C23: in the output, every traceback stands under a header that names its
\* test, and the stdio block of a test that has a traceback is printed, when
\* that test wrote something, under a header that names the test too.
C23_TracebackUnderItsHeader ==
    /\ \A ln \in 1..Len(printer.out) :
          printer.out[ln].what = "traceback" =>
              UnderHeaderOf(ln, printer.out[ln].test)
    /\ \A ln \in 1..Len(printer.out) :
          printer.out[ln].what \in {"stdout", "stderr"} =>
              LET i == printer.out[ln].content[1][1]
              IN HasTraceback(i) => UnderHeaderOf(ln, test_names[i])
    /\ \A i \in 1..ntest :
          (IosPrinted(i) /\ HasTraceback(i) /\ stdio[i].stdout) =>
              \E ln \in 1..Len(printer.out) :
                  /\ printer.out[ln].what = "stdout"
                  /\ printer.out[ln].content = <<<<i, "stdout">>>>

\* the same, for the single-process runner and for one job
C23_SequentialRuns == njobs <= 1 => C23_TracebackUnderItsHeader

\* two failing tests run by two workers: the traceback of the second stands
\* under the header of the first, the only header printed
C23_Diverged ==
    /\ njobs = 2 /\ ntest = 2 /\ pc = "done"
    /\ suite[1].results = <<FAIL>> /\ suite[2].results = <<FAIL>>
    /\ Cardinality({ln \in 1..Len(printer.out) :
                       printer.out[ln].what = "header"}) = 1
    /\ \E ln \in 1..Len(printer.out) :
          /\ printer.out[ln].what = "traceback"
          /\ printer.out[ln].test = test_names[2]
          /\ ~UnderHeaderOf(ln, test_names[2])

\* the positions, up to position c, of the calls of print_ios for test i, and
\* of the calls of print_message with an outcome of test i
IosCalls(i, c) ==
    {x \in 1..c : /\ printer.calls[x].call = "print_ios"
                  /\ printer.calls[x].test = test_names[i]}
OutcomeCalls(i, c) ==
    {x \in 1..c : /\ printer.calls[x].call = "print_message"
                  /\ printer.calls[x].test = test_names[i]
                  /\ printer.calls[x].status # RUNNING}

\* every call of print_ios for a test comes after the print_message calls of
\* all the outcomes of that test, and there is at most one such call
IosAfterAllOutcomes ==
    \A i \in 1..ntest :
        /\ Cardinality(IosCalls(i, Len(printer.calls))) <= 1
        /\ \A c \in IosCalls(i, Len(printer.calls)) :
              /\ Cardinality(OutcomeCalls(i, c)) = Len(suite[i].results)
              /\ OutcomeCalls(i, Len(printer.calls)) = OutcomeCalls(i, c)

\* C24: print_ios is called exactly once for every test whose outcomes have
\* been passed to print_message, and after all of them.
C24_IosOncePerTest ==
    /\ IosAfterAllOutcomes
    /\ \A i \in 1..ntest :
          OutcomeCalls(i, Len(printer.calls)) # {} =>
              Cardinality(IosCalls(i, Len(printer.calls))) = 1

\* print_ios is called exactly once, after the print_message calls of all
\* its outcomes, for every test whose stopTest returned, in the single
\* process and on the scheduler's side; it is not called for the test whose
\* working-directory check raised in the single process.
C24_IosOncePerStoppedTest ==
    /\ IosAfterAllOutcomes
    /\ \A i \in 1..ntest :
          OutcomeCalls(i, Len(printer.calls)) # {} =>
              Cardinality(IosCalls(i, Len(printer.calls)))
                  = (IF suite[i].chdir THEN 0 ELSE 1)
    /\ \A i \in 1..ntest :
          suite[i].chdir /\ OutcomeCalls(i, Len(printer.calls)) # {} =>
              njobs = 0 /\ mpc = "raised" /\ mi = i + 1

\* a run with two workers has ended; the first test has a passing and a
\* failing sub-test and wrote something: its two outcomes were printed, then
\* its stdio block, once
C24_SubTestsThenIos ==
    /\ njobs = 2 /\ pc = "done" /\ ntest = 2
    /\ suite[1].results = <<PASS, FAIL>> /\ stdio[1].stdout
    /\ \E c \in 3..Len(printer.calls) :
          /\ IosCalls(1, Len(printer.calls)) = {c}
          /\ OutcomeCalls(1, Len(printer.calls)) = {c - 2, c - 1}
    /\ \E ln \in 1..Len(printer.out) :
          printer.out[ln].content = <<<<1, "stdout">>>>

\* a single-process run raised after its first test, which passed, wrote
\* something and changed the working directory: the outcome was printed and
\* what the test wrote was captured, but print_ios was never called
C24_Diverged ==
    /\ njobs = 0 /\ mpc = "raised" /\ mi = 2
    /\ suite[1].chdir /\ stdio[1].stdout
    /\ OutcomeCalls(1, Len(printer.calls)) # {}
    /\ IosCalls(1, Len(printer.calls)) = {}
    /\ cap.stdout_value = <<<<<<1, "stdout">>>>>>

\* every chunk of a captured value was written by test i
OnlyFrom(value, i) ==
    value # <<>> => \A x \in 1..Len(value[1]) : value[1][x][1] = i

\* the test the result object runs in this step
RunsNow == IF njobs = 0 THEN mi ELSE IndexOf(wmsg'[0])

\* C25: between tests, whether the last stopTest returned or the
\* working-directory check raised in it, sys.stdout and sys.stderr are the
\* original streams and both buffers are empty, and a captured value holds
\* nothing but what the test that produced it wrote.
C25_StreamsRestored ==
    /\ [](/\ cap.sys_stdout = "original" /\ cap.sys_stderr = "original"
          /\ cap.stdout_buffer = <<>> /\ cap.stderr_buffer = <<>>)
    /\ [][ cap' # cap =>
              /\ OnlyFrom(cap'.stdout_value, RunsNow)
              /\ OnlyFrom(cap'.stderr_value, RunsNow) ]_vars

\* the working-directory check raised in the stopTest of the second test of
\* a single-process run; both tests wrote something, and the captured value
\* is what the second wrote
C25_Witness ==
    /\ njobs = 0 /\ mpc = "raised" /\ mi = 3
    /\ suite[2].chdir /\ stdio[1].stdout /\ stdio[2].stdout
    /\ cap.buffer
    /\ cap.stdout_value = <<<<<<2, "stdout">>>>>>
    /\ cap.sys_stdout = "original"

\* the same in a worker: the check raised in the second test it ran
C25_WitnessClient ==
    /\ njobs = 1 /\ ntest >= 2
    /\ wpc[0] = "left" /\ wmsg[0] = test_names[2]
    /\ suite[2].chdir /\ stdio[1].stdout /\ stdio[2].stdout
    /\ cap.buffer
    /\ cap.stdout_value = <<<<<<2, "stdout">>>>>>
    /\ cap.sys_stdout = "original"

\* stdout_value and stderr_value are None: CaptureStdio has replaced no
\* stream and read no buffer
Passthrough == cap.stdout_value = <<>> /\ cap.stderr_value = <<>>

\* C26: when buffering is turned off with buffer=False, or the run is
\* under the debugger (--pdb), startTest and stopTest leave sys.stdout and
\* sys.stderr alone and stdout_value / stderr_value stay None.
C26_PassthroughWhenOffOrPdb ==
    (buffer_kwd = <<FALSE>> \/ pdb) =>
        /\ Passthrough
        /\ cap.sys_stdout = "original" /\ cap.sys_stderr = "original"

\* the half of C26 the code keeps: with buffer=False nothing is captured
C26_PassthroughWhenBufferOff ==
    buffer_kwd = <<FALSE>> => Passthrough /\ ~cap.buffer

\* a test has run with buffer=False and its values are still None
C26_BufferOffRan ==
    /\ buffer_kwd = <<FALSE>>
    /\ njobs = 0 /\ mi >= 2
    /\ stdio[1].stdout
    /\ Passthrough

\* a run under --pdb whose first test wrote to stdout: the write was
\* captured
C26_Diverged ==
    /\ pdb /\ buffer_kwd = <<>>
    /\ njobs = 0 /\ mi >= 2
    /\ cap.stdout_value = <<<<<<1, "stdout">>>>>>

\* hunittest has ended: _do_main returned, an exception went on through
\* main, or the process was replaced by the pager
Ended == rc # <<>> \/ cpc \in {"propagated", "execvp"}

\* the run completed: nothing was collected, or the runner returned
Completed == cpc # "collect raised" /\ (ntest = 0 \/ RunnerReturned)

\* an exception escaped collection or execution
Escaped == ~Completed

\* the run recorded a fail, error or xpass outcome
HasErroneous == ntest > 0 /\ ~wasSuccessful(TheResult)

\* the failure list is what write_error_test_specs makes of the list read
\* at the start and of the results recorded so far
FailureListRewritten ==
    error_file = (previous_errors \cup TheResult.error_test_specs)
                     \ TheResult.succeed_test_specs

\* C27: unless --no-returncode is given, the exit code is 0 iff the run
\* completed without a fail/error/xpass outcome, 1 iff it completed with
\* one, and 2 iff an exception escaped collection or execution, in which
\* case the failure list has been rewritten from the partial results.
C27_ExitCodes ==
    (Ended /\ ~no_returncode) =>
        /\ exit_status = <<0>> <=> (Completed /\ ~HasErroneous)
        /\ exit_status = <<1>> <=> (Completed /\ HasErroneous)
        /\ exit_status = <<2>> <=> Escaped
        /\ Escaped => FailureListRewritten

\* what the code keeps: whenever _do_main returns, its value is 0, 1 or 2
\* as the claim says, and main returns it unless --no-returncode is given
C27_ReturnedCodes ==
    rc # <<>> =>
        /\ rc = <<0>> <=> (Completed /\ ~HasErroneous)
        /\ rc = <<1>> <=> (Completed /\ HasErroneous)
        /\ rc = <<2>> <=> Escaped
        /\ exit_status = (IF no_returncode THEN <<0>> ELSE rc)
        /\ (Escaped /\ cpc # "collect raised") => FailureListRewritten

\* a failed run on a terminal with --pager auto: the process has become
\* the pager and exits with the pager's status, not with 1
C27_Diverged ==
    /\ cpc = "execvp" /\ ~no_returncode
    /\ Completed /\ HasErroneous
    /\ exit_status # <<1>>

\* a KeyboardInterrupt out of the scheduler: the failure list is rewritten
\* but no return statement is reached
C27_Interrupted ==
    /\ cpc = "propagated" /\ ~no_returncode
    /\ Escaped /\ exit_status # <<2>>

\* an exception out of the single-process runner after a failed test: 2 is
\* returned and the failed test is in the failure list
C27_TwoAfterPartialRun ==
    /\ cpc = "returned" /\ njobs = 0 /\ rc = <<2>>
    /\ mresult.error_test_specs # {}
    /\ error_file = mresult.error_test_specs

\* every collected test was started and stopped by the single process and
\* no worker was made
RunInSameProcess ==
    /\ pc = "off" /\ workers = <<>>
    /\ mpc = "done"
    /\ mresult.tests_run = ntest

\* C28: for every --jobs value <= 0 the tests are run in the same process by
\* the single-process runner and every collected test is executed (a run
\* that completes without failfast is looked at).
C28_NonPositiveJobsRunInProcess ==
    (rc # <<>> /\ njobs <= 0 /\ ntest > 0 /\ Completed /\ ~failfast) =>
        RunInSameProcess

\* what the code keeps: with --jobs 0 the single-process runner runs every
\* test
C28_ZeroJobsRunInProcess ==
    (rc # <<>> /\ njobs = 0 /\ ntest > 0 /\ Completed /\ ~failfast) =>
        RunInSameProcess

\* a completed run with --jobs 0 of three tests
C28_ZeroJobsRan ==
    /\ rc # <<>> /\ njobs = 0 /\ ntest = 3 /\ ~failfast
    /\ Completed /\ RunInSameProcess

\* --jobs -1 with a failing test: run_concurrent_tests was called, it made
\* no worker and started no test, and _do_main returned 0
C28_Diverged ==
    /\ njobs = -1 /\ ntest > 0
    /\ \E i \in 1..ntest : suite[i].results = <<FAIL>>
    /\ pc = "done" /\ workers = <<>>
    /\ result.tests_run = 0 /\ mresult.tests_run = 0
    /\ rc = <<0>>

\* the worker waits for its next command, nothing is pending and the parent
\* has closed its end of the pipe
ParentGone == wpc[0] = "recv" /\ down[0] = <<>> /\ closed_m[0]

\* this step is the worker receiving the message at the head of its pipe
WorkerReceives == down[0] # <<>> /\ down'[0] = Tail(down[0])

\* this step runs no test and sends nothing
RunsNoTest == client' = client /\ sent' = sent /\ up' = up /\ wmsg' = wmsg

\* C29: a worker waiting for its next command whose parent end is closed
\* raises and terminates without running another test; the stop sentinel
\* makes it leave its loop normally without running another test; a message
\* that is neither a string nor the sentinel is rejected with an error.
C29_WorkerCommands ==
    /\ ParentGone ~> (wpc[0] # "recv" /\ wexc[0] = "parent died")
    /\ [][ (WorkerReceives /\ Head(down[0]).kind = "None") =>
              (wpc'[0] = "left" /\ wexc'[0] = "" /\ RunsNoTest) ]_vars
    /\ [][ (WorkerReceives /\ unexpected(Head(down[0]))) =>
              (/\ wpc'[0] = "left" /\ wexc'[0] = "unexpected message"
               /\ RunsNoTest) ]_vars
    /\ [][ wpc[0] # "recv" => RunsNoTest ]_vars

\* what the code keeps: the sentinel, the unexpected message, and the EOF
\* when multiprocessing does not fork
C29_WorkerCommandsUnlessForked ==
    /\ (start_method # "fork" /\ ParentGone)
           ~> (wpc[0] # "recv" /\ wexc[0] = "parent died")
    /\ [][ (WorkerReceives /\ Head(down[0]).kind = "None") =>
              (wpc'[0] = "left" /\ wexc'[0] = "" /\ RunsNoTest) ]_vars
    /\ [][ (WorkerReceives /\ unexpected(Head(down[0]))) =>
              (/\ wpc'[0] = "left" /\ wexc'[0] = "unexpected message"
               /\ RunsNoTest) ]_vars
    /\ [][ wpc[0] # "recv" => RunsNoTest ]_vars

\* a spawned worker that ran a test and then found its parent gone
C29_ParentDied ==
    /\ start_method = "spawn"
    /\ wexc[0] = "parent died" /\ wpc[0] = "exited"
    /\ ntest >= 2 /\ sent[1] = 1 /\ sent[2] = 0

\* a worker that was sent something else than a string or None
C29_Rejected == wexc[0] = "unexpected message" /\ wpc[0] = "exited"

\* a forked worker whose parent closed its end: it holds a copy of that end
\* itself, recv() never raises and the worker stays blocked
C29_Diverged ==
    /\ start_method = "fork"
    /\ ParentGone
    /\ ~ENABLED WorkerStep(0)

\* the log file is open
LogOpen == printer.file # <<>>

\* the lines this step adds to the output were not written to the log
NothingLogged ==
    /\ Len(printer'.out) >= Len(printer.out)
    /\ \A x \in (Len(printer.out) + 1)..Len(printer'.out) :
           ~printer'.out[x].logged

\* C30: the log file is open from the creation of the ResultPrinter until
\* its scope exits and closed from then on, however the run ended; a second
\* close() changes nothing; and no line is written to the log once it is
\* closed.
C30_LogOpenUntilScopeExits ==
    /\ [](cpc \in {"run", "summarised"} => LogOpen)
    /\ [](cpc \in {"exited", "deleted", "late"} => ~LogOpen)
    /\ [][ (cpc = "exited" /\ cpc' = "deleted") => printer' = printer ]_vars
    /\ [][ ~LogOpen => NothingLogged ]_vars

\* a run stopped by failfast: lines went to the log while it was open, the
\* scope was left, close() was called again, and the line printed afterwards
\* is not in the log
C30_Witness ==
    /\ cpc = "late"
    /\ failfast /\ TheResult.should_stop
    /\ ~LogOpen
    /\ \E x \in 1..Len(printer.out) : printer.out[x].logged
    /\ ~printer.out[Len(printer.out)].logged

\* the scope was left by an exception out of the scheduler
C30_ClosedAfterException ==
    /\ cpc = "exited" /\ pc = "raised" /\ ~LogOpen

\* the scope was left after the summary of a run that was not stopped
C30_ClosedAfterSummary ==
    /\ cpc = "exited" /\ ntest > 0 /\ ~TheResult.should_stop
    /\ printer.out # <<>>
    /\ printer.out[Len(printer.out)].what = "summary"
    /\ ~LogOpen

\* Sigma over the tests i of f[i] * g(i), for g the number of sub-results of
\* the test or the total_time of its message
RECURSIVE WeightedSum(_, _, _)
WeightedSum(f, g, n) ==
    IF n = 0 THEN 0 ELSE f[n] * g[n] + WeightedSum(f, g, n - 1)

SubResultsOf == [i \in 1..ntest |-> Len(suite[i].results)]
TotalTimeOf == [i \in 1..ntest |-> elapsed[i][1]]

\* the step aggregates the TestResultMsg of test i
Aggregates(i) == processed'[i] = processed[i] + 1

\* C31: aggregating a test with k sub-results adds one to the counter of the
\* status of each sub-result, and adds the total_time of the message to the
\* accumulated time once; testsRun counts each identifier once, at its
\* start; so the counters sum to the number of outcomes recorded.
C31_CountersPerOutcome ==
    /\ [][ \A i \in 1..ntest : Aggregates(i) =>
              /\ \A s \in Stopped :
                     result'.status_counters[s] =
                         result.status_counters[s]
                             + CountIn(suite[i].results, s)
              /\ server_total_split_time' =
                     server_total_split_time + elapsed[i][1]
              /\ result'.tests_run - result.tests_run = Total(started')
                                                          - Total(started)
              /\ started'[i] = started[i] ]_vars
    /\ [](/\ CountersSum(result) = WeightedSum(processed, SubResultsOf, ntest)
          /\ server_total_split_time
                 = WeightedSum(processed, TotalTimeOf, ntest)
          /\ result.tests_run = Total(started)
          /\ \A i \in 1..ntest : started[i] <= 1 /\ processed[i] <= started[i])

\* two tests aggregated, one with two sub-results: three outcomes counted,
\* two tests run, and two message times added
C31_Witness ==
    /\ ntest >= 2
    /\ Total(processed) = 2
    /\ \E i \in 1..ntest : processed[i] = 1 /\ Len(suite[i].results) = 2
    /\ CountersSum(result) = 3
    /\ result.tests_run = 2
    /\ server_total_split_time >= 2

\* The number of erroneous outcomes counted by a result object.
ErroneousCount(self) ==
    self.status_counters[FAIL] + self.status_counters[ERROR]
        + self.status_counters[XPASS]

\* The step that sets the stop flag of self also counts an erroneous
\* outcome in it and leaves its error set non-empty.
StopsAfterCounting(self, self_) ==
    (~self.should_stop /\ self_.should_stop) =>
        /\ self.failfast
        /\ ErroneousCount(self_) > ErroneousCount(self)
        /\ self_.error_test_specs # {}

\* C32: in HTestResult and in HTestResultServer the stop flag is set by
\* failfast only in a step that has added the triggering outcome to the
\* status counters and to the error set, so whenever shouldStop is true
\* wasSuccessful() is false and the error set is not empty.
C32_StopOnlyAfterCounted ==
    /\ [][ StopsAfterCounting(mresult, mresult')
            /\ StopsAfterCounting(result, result') ]_vars
    /\ [](\A self \in {mresult, result} :
            self.should_stop =>
                ~wasSuccessful(self) /\ self.error_test_specs # {})

\* the scheduler's result and the single-process result have both stopped
C32_Witness ==
    /\ result.should_stop /\ ~wasSuccessful(result)
    /\ mresult.should_stop /\ ~wasSuccessful(mresult)
    /\ result.tests_run < ntest


\* the step receives the _ErrMsg at the head of the channel of worker w
ReceivesErrMsg(w) ==
    /\ pc = "loop" /\ up[w] # <<>> /\ Head(up[w]).kind = "ErrMsg"
    /\ up'[w] = Tail(up[w])

\* the step reads EOF on a channel of the live set
ReadsEOF == pc = "loop" /\ pc' = "loop" /\ Len(conns') < Len(conns)

\* the outcomes the step records in the scheduler's result
OutcomesAggregated ==
    WeightedSum(processed', SubResultsOf, ntest)
        - WeightedSum(processed, SubResultsOf, ntest)

\* the outcomes the step records in the single-process result
OutcomesOfMonoStep ==
    IF mi' > mi /\ mi <= ntest THEN Len(suite[mi].results) ELSE 0

\* C33: every counter starts at 0; no step decreases a counter, the counters
\* of a result object rise in a step by one for each outcome the step
\* records in it, and the step that receives a worker error message or
\* reads EOF on a channel leaves every counter as it was.
C33_CountersOnlyIncrement ==
    /\ \A s \in Stopped :
           result.status_counters[s] = 0 /\ mresult.status_counters[s] = 0
    /\ [][
          /\ \A s \in Stopped :
                /\ result'.status_counters[s] >= result.status_counters[s]
                /\ mresult'.status_counters[s] >= mresult.status_counters[s]
          /\ CountersSum(result') - CountersSum(result) = OutcomesAggregated
          /\ CountersSum(mresult') - CountersSum(mresult) = OutcomesOfMonoStep
          /\ (ReadsEOF \/ \E w \in DOMAIN up : ReceivesErrMsg(w)) =>
                /\ result'.status_counters = result.status_counters
                /\ mresult'.status_counters = mresult.status_counters
       ]_vars

\* counters have risen, an error message has been received and an EOF read
C33_Witness ==
    /\ \E s \in Stopped : result.status_counters[s] >= 2
    /\ CountersSum(mresult) >= 2
    /\ \E i \in 1..ntest : errmsgs[i] = 1 /\ started[i] = 1
    /\ \A w \in DOMAIN up : up[w] = <<>>
    /\ pc = "loop" /\ Len(conns) < Len(workers)


\* the channel of worker w is at EOF: nothing is pending on it and the
\* worker has closed its end
AtEOF(w) == w \in Range(conns) /\ up[w] = <<>> /\ closed_w[w]

\* the channel of worker w has been removed from the live set
Removed(w) == w \in Range(workers) /\ w \notin Range(conns)

\* the dispatch loop ends normally in this step
LoopEnds == pc = "loop" /\ pc' = "finally" /\ ~exc'

\* C34: reading EOF on a channel removes that channel, and only it, from
\* the live set; a removed channel is never put back, received from, sent to
\* or closed by the scheduler; the dispatch loop ends only when the live set
\* is empty, and with an empty live set the scheduler does nothing but end
\* the loop, whatever the number of identifiers left.
C34_EOFRemovesChannel ==
    /\ [][ (pc = "loop" /\ conns' # conns) =>
              \E w \in DOMAIN up :
                  /\ AtEOF(w)
                  /\ Range(conns') = Range(conns) \ {w}
                  /\ Len(conns') = Len(conns) - 1
                  /\ down' = down /\ up' = up /\ pc' = "loop" ]_vars
    /\ [][ \A w \in DOMAIN up :
              Removed(w) =>
                  /\ w \notin Range(conns')
                  /\ down'[w] = down[w]
                  /\ up'[w] = up[w]
                  /\ closed_m'[w] = closed_m[w] ]_vars
    /\ [][ /\ LoopEnds => conns = <<>>
           /\ (pc = "loop" /\ conns = <<>>) =>
                 /\ pc' \in {"loop", "finally"}
                 /\ t' = t /\ result' = result /\ down' = down ]_vars
    /\ []((pc = "loop" /\ conns = <<>>) => ENABLED LoopExit)

\* the loop has ended on an empty live set with identifiers never dispatched
C34_Witness ==
    /\ pc = "finally" /\ ~exc /\ conns = <<>>
    /\ t < ntest /\ ~result.should_stop
    /\ Len(workers) = 2


\* the step runs a test from startTest to stopTest
TestTimed == is_started(sw') /\ (is_started(sw) => splits_count(sw') # splits_count(sw))

\* the time between startTest and stopTest of the test the step runs
OwnDuration == utcnow' - utcnow

\* C35: the elapsed time reported for a test, the last split time of the
\* stopwatch once the test has stopped and the total_time of the
\* TestResultMsg sent for it, is the time between its startTest and its
\* stopTest, without the time spent between the previous test and this one.
C35_ElapsedIsOwnDuration ==
    [][ TestTimed =>
          /\ last_split_time(sw') = <<OwnDuration>>
          /\ \A i \in DOMAIN elapsed :
                 elapsed'[i] # elapsed[i] => elapsed'[i] = <<OwnDuration>>
      ]_vars

\* What the code does: the last split time is the time since the previous
\* split, or since the start of the stopwatch at the first test; it is the
\* test's own duration when no time passed since the previous test stopped.
C35_ElapsedSinceLastSplit ==
    [][ TestTimed =>
          LET since == IF is_started(sw) THEN sw.last_split_at[1] ELSE utcnow
          IN /\ last_split_time(sw') = <<utcnow' - since>>
             /\ since = utcnow => last_split_time(sw') = <<OwnDuration>>
             /\ \A i \in DOMAIN elapsed :
                    elapsed'[i] # elapsed[i] =>
                        elapsed'[i] = <<utcnow' - since>>
      ]_vars

\* a worker has sent, for its second test, a total_time longer than the
\* body of a test takes
C35_IdleTimeCounted ==
    /\ njobs = 1 /\ ntest >= 2
    /\ sent[1] = 1 /\ sent[2] = 1
    /\ elapsed[1] = <<1>>
    /\ \A d \in TestDurations : elapsed[2][1] > d


\* the stopwatch of the single-process result is started once, by the
\* first startTest, at the instant of that call
StartedOnceAtFirstTest ==
    [][ njobs = 0 =>
          /\ is_started(sw) => sw'.started_at = sw.started_at
          /\ (~is_started(sw) /\ is_started(sw')) =>
                /\ mresult.tests_run = 0 /\ mresult'.tests_run = 1
                /\ sw'.started_at = <<utcnow>>
          /\ mresult'.tests_run >= 1 => is_started(sw') ]_vars

\* C36: in a single-process run the stopwatch is started exactly once, at
\* the first startTest, and split once for each outcome recorded, so that
\* when the run is over its split count is the number of outcomes recorded,
\* those of sub-tests included.
C36_SplitPerOutcome ==
    /\ StartedOnceAtFirstTest
    /\ []((njobs = 0 /\ mpc = "done" /\ is_started(sw)) =>
            splits_count(sw) = <<CountersSum(mresult)>>)

\* What the code does: the stopwatch is started once, at the first
\* startTest, and split once for each test, at its stopTest.
C36_SplitPerTest ==
    /\ StartedOnceAtFirstTest
    /\ []((njobs = 0 /\ is_started(sw)) =>
            splits_count(sw) = <<mresult.tests_run>>)

\* a run of one test with two sub-test outcomes is over with one split
C36_Diverged ==
    /\ njobs = 0 /\ mpc = "done" /\ ntest = 1
    /\ CountersSum(mresult) = 2
    /\ splits_count(sw) = <<1>>


\* the positions of the lines of the entry that were written, in order
WrittenLines == [x \in 1..Len(written) |-> written[x].line]

\* the positions from a to b, in order
Upto(a, b) == [x \in 1..(b - a + 1) |-> a + x - 1]

\* the first line of the entry that names a file of the unittest package;
\* Len(lines) + 1 when there is none
FirstUnittestLine ==
    IF \E x \in 1..Len(lines) : lines[x] = "unittest"
    THEN CHOOSE x \in 1..Len(lines) :
             /\ lines[x] = "unittest"
             /\ \A y \in 1..(x - 1) : lines[y] # "unittest"
    ELSE Len(lines) + 1

\* the lines the claim has omitted: each line naming a file of the unittest
\* package and the line after it
OmittedAsClaimed ==
    {x \in 1..Len(lines) :
        \/ lines[x] = "unittest"
        \/ x > 1 /\ lines[x - 1] = "unittest"}

\* C37 as stated: with the option set, each line naming a file of the
\* unittest package and the one line after it are omitted, and every other
\* line of the traceback is written.
C37_LineAndNextOmitted ==
    (strip_unittest_traceback /\ lines # <<>>) =>
        /\ Range(WrittenLines) = (1..Len(lines)) \ OmittedAsClaimed
        /\ \A x, y \in 1..Len(written) :
               x < y => written[x].line < written[y].line

\* C37: with the option set, in an entry of the traceback that does not
\* begin with a line naming a file under the top-level directory, the first
\* line naming a file of the unittest package and every later line of the
\* same entry are omitted, which is exactly one more line for the usual
\* two-line entry of a frame; the lines before it are written as they are.
\* An entry that begins with a file under the top-level directory is written
\* whole, highlighted, and without the option every line is written.
C37_RestOfEntryOmitted ==
    lines # <<>> =>
        /\ (strip_unittest_traceback /\ ~is_user_filename(lines)) =>
              /\ WrittenLines = Upto(1, FirstUnittestLine - 1)
              /\ \A x \in 1..Len(written) : ~written[x].highlighted
              /\ (Len(lines) = 2 /\ lines[1] = "unittest") => written = <<>>
        /\ (~strip_unittest_traceback \/ is_user_filename(lines)) =>
              /\ WrittenLines = Upto(1, Len(lines))
              /\ \A x \in 1..Len(written) :
                     written[x].highlighted = is_user_filename(lines)

\* a three-line entry of a unittest frame has been omitted whole
C37_Witness ==
    /\ strip_unittest_traceback
    /\ lines = <<"unittest", "text", "text">>
    /\ written = <<>>
    /\ entries_done = 2


\* the scheduler is blocked in mp.connection.wait on worker w
WaitsFor(w) ==
    pc = "loop" /\ w \in Range(conns) /\ up[w] = <<>> /\ ~closed_w[w]

\* worker w is blocked in conn.recv(): it has no command to run
WaitsForCommand(w) == wpc[w] = "recv" /\ down[w] = <<>>

\* every worker has left its loop and ended, the live set is empty and every
\* worker has been joined
AllOver ==
    /\ pc = "done"
    /\ conns = <<>>
    /\ \A x \in 1..Len(workers) : wpc[workers[x]] = "exited"
    /\ j = Len(workers) + 1

\* C38: a run of run_concurrent_tests in which every process takes the steps
\* it can take ends: eventually every worker has left its loop, the live
\* set is empty and every worker has been joined; and the scheduler never
\* waits for a worker that is itself waiting for a command.
C38_Terminates ==
    /\ <>[]AllOver
    /\ [](\A w \in DOMAIN wpc : ~(WaitsFor(w) /\ WaitsForCommand(w)))
    /\ [](pc \in {"start", "bootstrap", "loop", "finally", "join", "done"})

\* a run of two workers stopped by failfast is over with identifiers left
C38_Witness ==
    /\ AllOver
    /\ Len(workers) = 2
    /\ failfast /\ result.should_stop
    /\ t < ntest


\* the step sends a message to worker w
SendsTo(w) == Len(down'[w]) > Len(down[w])

\* the step sends the stop sentinel to worker w
SendsStopTo(w) == SendsTo(w) /\ down'[w][Len(down'[w])] = None

\* worker w has been sent the stop sentinel: it has not received it yet, or
\* it has left its loop on receiving it
StopPending(w) == \E x \in 1..Len(down[w]) : down[w][x] = None

\* worker w is in its loop
InLoop(w) == wpc[w] = "recv"

\* C39: the scheduler sends the stop sentinel to a worker at most once and
\* sends nothing on the channel of a worker that has left its loop, in the
\* dispatch loop and in the finally clause alike.
C39_StopSentOnce ==
    [][ \A w \in DOMAIN down :
          /\ SendsTo(w) => InLoop(w)
          /\ SendsStopTo(w) => ~StopPending(w) ]_vars

\* What the code does: the property holds of every send made before an
\* exception reaches the finally clause.
C39_StopSentOnceUnlessInterrupted ==
    [][ ~exc =>
          \A w \in DOMAIN down :
              /\ SendsTo(w) => InLoop(w)
              /\ SendsStopTo(w) => ~StopPending(w) ]_vars

\* a worker has two stop sentinels pending
C39_Diverged ==
    /\ exc
    /\ \E w \in DOMAIN down :
           /\ Len(down[w]) = 2
           /\ down[w][1] = None /\ down[w][2] = None

\* the stop sentinel has been sent to a worker that had left its loop
C39_SentAfterLeft ==
    /\ exc
    /\ \E w \in DOMAIN down :
           /\ wpc[w] \in {"left", "exited"}
           /\ wexc[w] = ""
           /\ down[w] = <<None>>
           /\ \A i \in 1..ntest : errmsgs[i] = 0


\* the tests in flight: started, with neither a result aggregated nor a
\* worker fault reported
NumInFlight == Cardinality({i \in 1..ntest : Awaited(i)})

\* the tests lost to a worker fault
NumLost == Total(errmsgs)

\* C40: in a concurrent run testsRun is at most total_tests and at least the
\* number of results aggregated, the difference being the tests in flight
\* plus the tests lost to worker faults; progress, testsRun over
\* total_tests, lies between 0 and 1; and the mean test time of the
\* scheduler's result is the aggregated time divided by testsRun, zero
\* while testsRun is 0.
C40_ProgressAndMean ==
    /\ result.tests_run <= result.total_tests
    /\ result.total_tests = ntest
    /\ result.tests_run >= Total(processed)
    /\ result.tests_run - Total(processed) = NumInFlight + NumLost
    /\ result.tests_run = Total(started)
    /\ ntest > 0 =>
          LET p == RunProgress_progress(result)
          IN p.den > 0 /\ 0 <= p.num /\ p.num <= p.den
                /\ p.num = Total(started) /\ p.den = ntest
    /\ HTestResultServer_mean_split_time(result) =
          (IF Total(started) = 0 THEN 0
           ELSE timedelta_truediv(
                    WeightedSum(processed, TotalTimeOf, ntest),
                    Total(started)))

\* of three tests started one is aggregated, one lost and one in flight,
\* and the mean is taken over the three
C40_Witness ==
    /\ result.tests_run = 3
    /\ Total(processed) = 1 /\ NumLost = 1 /\ NumInFlight = 1
    /\ HTestResultServer_total_split_time(result) = 2
    /\ HTestResultServer_mean_split_time(result) = 1

====
